---- MODULE Spec2Model ----
(***************************************************************************)
(* A model of prompt-scribe's composer (promptscribe/composer.py) and of   *)
(* the compose command that drives it (promptscribe/cli.py).               *)
(*                                                                         *)
(* Text is a sequence of tokens.  A token is a piece of literal text, a    *)
(* variable reference {{ v }} written with some inner whitespace, or a     *)
(* call of one of the two file helpers, {{ read_file('p') }} and           *)
(* {{ read_file_raw('p') }}.  Rendering a text consumes its tokens and     *)
(* yields a text again, so what a rendering leaves behind (a placeholder,  *)
(* a variable's value that itself holds a reference) stays visible.        *)
(***************************************************************************)
EXTENDS Naturals, Sequences, FiniteSets, TLC

VARIABLES
    config,         \* PromptComposer.config: the configuration loaded at construction
    files,          \* the files under the project: resolved path -> status and content
    dependencies,   \* PromptComposer.dependencies: agent name -> set of resolved paths
    outfs,          \* output files written so far: resolved path -> text
    outdirs,        \* parent directories created for output files
    subst_context,  \* PromptComposer._subst_context
    run,            \* the compose command: its targets, position and exit
    last,           \* record of the last operation (what it read, returned, raised)
    prompts_yml,    \* the configuration as prompts.yml holds it now
    watcher,        \* watch mode: the ChangeHandler, its observer and restart queue
    elapsed         \* time.time() - handler.last_event_time, counted up to the interval

vars == <<config, files, dependencies, outfs, outdirs, subst_context, run, last,
          prompts_yml, watcher, elapsed>>

\* The state of watch mode.
watch_vars == <<prompts_yml, watcher, elapsed>>

(***************************************************************************)
(* Bounds of the model and constants of the program.                       *)
(***************************************************************************)
\* Nested _substitute_variables calls (a file that reads a file that ...)
\* the interpreter allows before it raises RecursionError.
MaxNesting == 3

(***************************************************************************)
(* Tokens and texts.                                                       *)
(***************************************************************************)
Lit(c)    == [k |-> "lit", v |-> c, ws |-> 0]
Ref(n, w) == [k |-> "ref", v |-> n, ws |-> w]
RF(p)     == [k |-> "read_file", v |-> p, ws |-> 1]
RFR(p)    == [k |-> "read_file_raw", v |-> p, ws |-> 1]

SP == Lit(" ")
NL == Lit("\n")
SLASH == Lit("/")

IsSpace(tok) == tok.k = "lit" /\ tok.v \in {" ", "\n", "\t"}
IsReference(tok) == tok.k # "lit"

Pad(w) == IF w = 0 THEN "" ELSE IF w = 1 THEN " " ELSE "  "

\* The characters a token stands for.
TokStr(tok) ==
    CASE tok.k = "lit" -> tok.v
      [] tok.k = "ref" -> "{{" \o Pad(tok.ws) \o tok.v \o Pad(tok.ws) \o "}}"
      [] tok.k = "read_file" -> "{{ read_file('" \o tok.v \o "') }}"
      [] tok.k = "read_file_raw" -> "{{ read_file_raw('" \o tok.v \o "') }}"

RECURSIVE ToStr(_)
ToStr(text) == IF text = <<>> THEN "" ELSE TokStr(Head(text)) \o ToStr(Tail(text))

\* str.strip(): leading and trailing whitespace removed.
RECURSIVE LStrip(_)
LStrip(text) ==
    IF text # <<>> /\ IsSpace(Head(text)) THEN LStrip(Tail(text)) ELSE text

RECURSIVE RStrip(_)
RStrip(text) ==
    IF text # <<>> /\ IsSpace(text[Len(text)])
    THEN RStrip(SubSeq(text, 1, Len(text) - 1))
    ELSE text

Strip(text) == RStrip(LStrip(text))

\* Jinja2's lexer drops one trailing newline of a template source
\* (Environment(keep_trailing_newline=False), the default used here).
DropTrailingNewline(text) ==
    IF text # <<>> /\ text[Len(text)] = NL
    THEN SubSeq(text, 1, Len(text) - 1)
    ELSE text

(***************************************************************************)
(* Values of variables: a string (a text), a number, or the _settings      *)
(* mapping compose_agent injects.                                          *)
(***************************************************************************)
StrVal(text) == [t |-> "str", s |-> text, warn |-> TRUE, sub |-> TRUE]
IntVal(d)    == [t |-> "int", s |-> <<Lit(d)>>, warn |-> TRUE, sub |-> TRUE]
SettingsVal(w, s) == [t |-> "map", s |-> <<Lit("{settings}")>>, warn |-> w, sub |-> s]

\* str(value), as the renderer prints a value.
StrOf(val) == val.s

\* dict merge {**f, **g} and dict.update: g wins on a shared key.
Merge(f, g) ==
    [key \in (DOMAIN f) \cup (DOMAIN g) |-> IF key \in DOMAIN g THEN g[key] ELSE f[key]]

Put(f, key, val) == Merge(f, [x \in {key} |-> val])

NoVars == [x \in {} |-> StrVal(<<>>)]

\* variables.get('_settings', {}).get('warn_on_missing', True)
WarnOnMissing(variables) ==
    IF "_settings" \in DOMAIN variables /\ variables["_settings"].t = "map"
    THEN variables["_settings"].warn
    ELSE TRUE

\* variables.get('_settings', {}).get('substitute_in_includes', True)
SubstituteInIncludes(variables) ==
    IF "_settings" \in DOMAIN variables /\ variables["_settings"].t = "map"
    THEN variables["_settings"].sub
    ELSE TRUE

\* variables.get('_agent_name', '')
AgentNameOf(variables) ==
    IF "_agent_name" \in DOMAIN variables THEN ToStr(StrOf(variables["_agent_name"])) ELSE ""

(***************************************************************************)
(* Paths.  A resolved path is the sequence of its components from the      *)
(* root.  The project lives in /proj, the working directory; the           *)
(* configuration file is /proj/.prompt_scribe/prompts.yml.                 *)
(***************************************************************************)
Cwd == <<"proj">>
base_dir == <<"proj", ".prompt_scribe">>
config_path == base_dir \o <<"prompts.yml">>

Parent(p) == IF p = <<>> THEN <<>> ELSE SubSeq(p, 1, Len(p) - 1)

\* Path.relative_to(Path.cwd()) raises ValueError unless the path is under cwd.
UnderCwd(p) == Len(p) >= Len(Cwd) /\ SubSeq(p, 1, Len(Cwd)) = Cwd

\* The components of a path string: the text cut at its separators.
RECURSIVE Components(_, _)
Components(text, cur) ==
    IF text = <<>> THEN (IF cur = "" THEN <<>> ELSE <<cur>>)
    ELSE IF Head(text) = SLASH
         THEN (IF cur = "" THEN <<>> ELSE <<cur>>) \o Components(Tail(text), "")
         ELSE Components(Tail(text), cur \o TokStr(Head(text)))

\* Path.resolve(): "." dropped, ".." steps up.
RECURSIVE Normalize(_, _)
Normalize(comps, acc) ==
    IF comps = <<>> THEN acc
    ELSE IF Head(comps) = "." THEN Normalize(Tail(comps), acc)
    ELSE IF Head(comps) = ".." THEN Normalize(Tail(comps), Parent(acc))
    ELSE Normalize(Tail(comps), Append(acc, Head(comps)))

IsAbsolute(text) == text # <<>> /\ Head(text) = SLASH

\* PromptComposer._resolve_path: an absolute path is returned as it is, a
\* relative one is joined to the configuration file's directory and resolved.
ResolvePath(text) ==
    IF IsAbsolute(text) THEN Components(text, "")
    ELSE Normalize(Components(text, ""), base_dir)

\* Path / name: joining an absolute name replaces the left side.
JoinPath(dir, text) ==
    IF IsAbsolute(text) THEN Components(text, "") ELSE dir \o Components(text, "")

HasSeparator(text) == \E i \in 1..Len(text) : text[i] \in {SLASH, Lit("\\")}

(***************************************************************************)
(* The file system as the composer reads it.                               *)
(***************************************************************************)
MissingFile == [st |-> "missing", content |-> <<>>]

FileAt(fs, p) == IF p \in DOMAIN fs THEN fs[p] ELSE MissingFile

(***************************************************************************)
(* The substitution engine.  The state threaded through a rendering is     *)
(*   out    the text produced so far by the innermost running call,        *)
(*   deps   the dependencies map,                                          *)
(*   reads  every resolved path handed to Path.read_text,                  *)
(*   ctx    _subst_context,                                                *)
(*   warns  the warnings sent to the ui, oldest first,                     *)
(*   err    "none", or the exception that is propagating.                  *)
(***************************************************************************)
NoPath == "None"

StartState(deps, ctx) ==
    [out |-> <<>>, deps |-> deps, reads |-> {}, ctx |-> ctx, warns |-> <<>>, err |-> "none"]

Emit(st, text) == [st EXCEPT !.out = st.out \o text]

Warn(st, kind, name, where) ==
    [st EXCEPT !.warns = Append(st.warns, [kind |-> kind, name |-> name, file |-> where])]

\* A variant of RecordDependency that forgets the read.
RecordDependencyNever(deps, agent_name, file_path) == deps

\* _read_file_content, lines 139-140: the path is recorded for the agent
\* whose set is being tracked.
RecordDependency(deps, agent_name, file_path) ==
    IF agent_name # "" /\ agent_name \in DOMAIN deps
    THEN [deps EXCEPT ![agent_name] = deps[agent_name] \cup {file_path}]
    ELSE deps

\* A variant of ReadFileContent for which a missing file is a failure like
\* any other.
ReadFileContentStrict(fs, path_text, agent_name, st) ==
    LET file_path == ResolvePath(path_text)
        f  == FileAt(fs, file_path)
        s1 == [st EXCEPT !.deps = RecordDependency(st.deps, agent_name, file_path),
                         !.reads = st.reads \cup {file_path}]
    IN  IF f.st = "ok" THEN [s1 EXCEPT !.out = f.content]
        ELSE [s1 EXCEPT !.out = <<>>, !.err = "PromptScribeError"]

\* PromptComposer._read_file_content: resolve, record, read.  A missing file
\* is a warning and the empty string; any other failure is a PromptScribeError.
\* The result's out is the content read.
ReadFileContent(fs, path_text, agent_name, st) ==
    LET file_path == ResolvePath(path_text)
        f  == FileAt(fs, file_path)
        s1 == [st EXCEPT !.deps = RecordDependency(st.deps, agent_name, file_path),
                         !.reads = st.reads \cup {file_path}]
    IN  IF f.st = "ok" THEN [s1 EXCEPT !.out = f.content]
        ELSE IF f.st = "missing"
             THEN [Warn(s1, "file_not_found", ToStr(path_text), NoPath) EXCEPT !.out = <<>>]
             ELSE [s1 EXCEPT !.out = <<>>, !.err = "PromptScribeError"]

\* WarningUndefined.__str__: warn if the shared context says so, and print
\* the name between braces with one space on each side.
WarningUndefinedStr(name, st) ==
    LET s1 == IF st.ctx.warn THEN Warn(st, "undefined", name, st.ctx.file_path) ELSE st
    IN  Emit(s1, <<Ref(name, 1)>>)

\* Bind(v, F) is F(v) with v worked out once, the way a local variable
\* holds the result of a call.
Bind(v, F(_)) == CHOOSE r \in {F(x) : x \in {v}} : TRUE

RECURSIVE SubstituteVariables(_, _, _, _, _, _)
RECURSIVE RenderFrom(_, _, _, _, _, _, _)

\* read_file_wrapper / read_file_raw_wrapper of _get_jinja_helpers, called
\* from a rendering with a literal path.  The result's out is the helper's
\* return value.
ReadFileHelper(fs, raw, path_text, agent_name, variables, st, fuel) ==
    IF Strip(path_text) = <<>>
    THEN [Warn(st, "invalid_path", ToStr(path_text), NoPath) EXCEPT !.out = <<>>]
    ELSE Bind(ReadFileContent(fs, path_text, agent_name, st), LAMBDA r :
            IF r.err # "none" \/ raw \/ ~SubstituteInIncludes(variables)
            THEN r
            ELSE SubstituteVariables(fs, r.out, variables, ToStr(path_text), r, fuel))

\* One token of a template rendered by Jinja2 with the given handler for
\* undefined names ("warning": WarningUndefined, "default": jinja2.Undefined,
\* which prints nothing).
RenderToken(fs, tok, variables, agent_name, undefined, st, fuel) ==
    CASE tok.k = "lit" -> Emit(st, <<tok>>)
      [] tok.k = "ref" ->
            IF tok.v \in DOMAIN variables THEN Emit(st, StrOf(variables[tok.v]))
            ELSE IF undefined = "warning" THEN WarningUndefinedStr(tok.v, st)
            ELSE st
      [] tok.k \in {"read_file", "read_file_raw"} ->
            Bind(ReadFileHelper(fs, tok.k = "read_file_raw", <<Lit(tok.v)>>,
                                agent_name, variables, st, fuel),
                 LAMBDA r : [r EXCEPT !.out = st.out \o r.out])

\* Template.render: the tokens in order; an exception stops the rendering.
RenderFrom(fs, toks, variables, agent_name, undefined, st, fuel) ==
    IF toks = <<>> \/ st.err # "none" THEN st
    ELSE Bind(RenderToken(fs, Head(toks), variables, agent_name, undefined, st, fuel),
              LAMBDA s2 : RenderFrom(fs, Tail(toks), variables, agent_name, undefined,
                                     s2, fuel))

\* PromptComposer._substitute_variables.  The shared context is set, the
\* helpers are bound to the agent named in the variables, and the text is
\* rendered once.  The result's out is the returned string.
SubstituteVariables(fs, text, variables, file_path_context, st, fuel) ==
    IF fuel = 0 THEN [st EXCEPT !.out = <<>>, !.err = "RecursionError"]
    ELSE Bind([st EXCEPT !.out = <<>>,
                         !.ctx = [file_path |-> file_path_context,
                                  warn |-> WarnOnMissing(variables)]],
              LAMBDA s1 : RenderFrom(fs, DropTrailingNewline(text), variables,
                                     AgentNameOf(variables), "warning", s1, fuel - 1))

(***************************************************************************)
(* The configuration.                                                      *)
(*   settings   warn, sub ("unset", "true", "false"), template,            *)
(*              templates_dir, output_dir, output_file (<<>>: not set)     *)
(*   variables  the global variables                                       *)
(*   order      the names of the variables in the order the file lists them*)
(*   names      the agents in the order the file lists them                *)
(*   agents     agent name -> its definition                               *)
(***************************************************************************)
AgentConfig(variables, has_assembly, assembly, template, output_file, warn, sub) ==
    [variables |-> variables, has_assembly |-> has_assembly, assembly |-> assembly,
     template |-> template, output_file |-> output_file, warn |-> warn, sub |-> sub]

Step(key, value) == [key |-> key, value |-> value]

EmptyAgentConfig == AgentConfig(NoVars, FALSE, <<>>, <<>>, <<>>, "unset", "unset")

\* Truthiness of an agent's definition: a mapping with no key is falsy.
IsFalsy(agent_config) == agent_config = EmptyAgentConfig

\* PromptComposer.get_all_agent_names
GetAllAgentNames(cfg) == cfg.names

\* A variant of EffectiveFlag that does not look at the agent's own setting.
EffectiveFlagGlobal(agent_flag, settings_flag) ==
    IF settings_flag # "unset" THEN settings_flag = "true" ELSE TRUE

\* dict.get(flag, settings.get(flag, True))
EffectiveFlag(agent_flag, settings_flag) ==
    IF agent_flag # "unset" THEN agent_flag = "true"
    ELSE IF settings_flag # "unset" THEN settings_flag = "true"
    ELSE TRUE

\* settings.get("templates_dir", "templates"), settings.get("output_dir", ...)
WithDefault(text, default) == IF text = <<>> THEN <<Lit(default)>> ELSE text

\* The keys of the merged mapping in insertion order: the global ones, the
\* agent's own, then the injected ones (a key keeps the place it had).
MergedKeys(cfg, global_vars, agent_vars) ==
    LET g == SelectSeq(cfg.order, LAMBDA n : n \in DOMAIN global_vars)
        a == SelectSeq(cfg.order, LAMBDA n : n \in DOMAIN agent_vars /\ n \notin DOMAIN global_vars)
        user == (DOMAIN global_vars) \cup (DOMAIN agent_vars)
    IN  g \o a
          \o (IF "_agent_name" \in user THEN <<>> ELSE <<"_agent_name">>)
          \o (IF "_settings" \in user THEN <<>> ELSE <<"_settings">>)

\* A variant of ResolveKeys in which a value is rendered against the values
\* already resolved.
RECURSIVE ResolveKeysSeeing(_, _, _, _, _, _)
ResolveKeysSeeing(fs, keys, merged_vars, final_vars, st, fuel) ==
    IF keys = <<>> \/ st.err # "none" THEN [vars |-> final_vars, st |-> st]
    ELSE IF merged_vars[Head(keys)].t = "str"
    THEN Bind(SubstituteVariables(fs, merged_vars[Head(keys)].s,
                                  Merge(merged_vars, final_vars), NoPath, st, fuel),
              LAMBDA r : Bind(Put(final_vars, Head(keys), StrVal(r.out)),
                              LAMBDA fv : ResolveKeysSeeing(fs, Tail(keys), merged_vars, fv, r,
                                                            fuel)))
    ELSE Bind(Put(final_vars, Head(keys), merged_vars[Head(keys)]),
              LAMBDA fv : ResolveKeysSeeing(fs, Tail(keys), merged_vars, fv, st, fuel))

\* The loop of _resolve_variables, lines 169-176: each string value is
\* rendered against the merged mapping, any other value is kept.
RECURSIVE ResolveKeys(_, _, _, _, _, _)
ResolveKeys(fs, keys, merged_vars, final_vars, st, fuel) ==
    IF keys = <<>> \/ st.err # "none" THEN [vars |-> final_vars, st |-> st]
    ELSE IF merged_vars[Head(keys)].t = "str"
    THEN Bind(SubstituteVariables(fs, merged_vars[Head(keys)].s, merged_vars, NoPath,
                                  st, fuel),
              LAMBDA r : Bind(Put(final_vars, Head(keys), StrVal(r.out)),
                              LAMBDA fv : ResolveKeys(fs, Tail(keys), merged_vars, fv, r, fuel)))
    ELSE Bind(Put(final_vars, Head(keys), merged_vars[Head(keys)]),
              LAMBDA fv : ResolveKeys(fs, Tail(keys), merged_vars, fv, st, fuel))

\* A variant of MergedVariables in which a global variable wins over the
\* agent's own.
MergedVariablesGlobalFirst(cfg, agent_name, extra_context) ==
    LET agent_vars == IF agent_name \in DOMAIN cfg.agents
                      THEN cfg.agents[agent_name].variables ELSE NoVars
        merged0 == Put(Merge(agent_vars, cfg.variables), "_agent_name",
                       StrVal(<<Lit(agent_name)>>))
    IN  Merge(merged0, extra_context)

\* The merge of _resolve_variables, lines 160-167.
MergedVariables(cfg, agent_name, extra_context) ==
    LET agent_vars == IF agent_name \in DOMAIN cfg.agents
                      THEN cfg.agents[agent_name].variables ELSE NoVars
        merged0 == Put(Merge(cfg.variables, agent_vars), "_agent_name",
                       StrVal(<<Lit(agent_name)>>))
    IN  Merge(merged0, extra_context)

\* PromptComposer._resolve_variables
ResolveVariables(cfg, fs, agent_name, extra_context, st, fuel) ==
    LET agent_vars == IF agent_name \in DOMAIN cfg.agents
                      THEN cfg.agents[agent_name].variables ELSE NoVars
    IN  Bind(MergedVariables(cfg, agent_name, extra_context), LAMBDA merged_vars :
            ResolveKeys(fs,
                        SelectSeq(MergedKeys(cfg, cfg.variables, agent_vars),
                                  LAMBDA n : n \in DOMAIN merged_vars),
                        merged_vars, NoVars, st, fuel))

(***************************************************************************)
(* The step-sequence strategy.                                             *)
(***************************************************************************)
\* key.startswith('h') and key[1:].isdigit(), and int(key[1:]), for the
\* step keys of the model.
HeadingKeys == {"h0", "h1", "h2", "h3", "h4", "h5", "h6", "h7", "h10"}

HeadingLevel(key) ==
    CASE key = "h0" -> 0 [] key = "h1" -> 1 [] key = "h2" -> 2 [] key = "h3" -> 3
      [] key = "h4" -> 4 [] key = "h5" -> 5 [] key = "h6" -> 6 [] key = "h7" -> 7
      [] key = "h10" -> 10

\* '#' * level
RECURSIVE Hashes(_)
Hashes(level) == IF level = 0 THEN <<>> ELSE <<Lit("#")>> \o Hashes(level - 1)

BlankLine == <<NL, NL>>

\* "\n\n".join(p.strip() for p in parts if p), line 321: the fragments that
\* are not the empty string, each trimmed, a blank line between them.
RECURSIVE JoinParts(_)
JoinParts(parts) ==
    LET kept == SelectSeq(parts, LAMBDA q : q # <<>>)
    IN  IF kept = <<>> THEN <<>>
        ELSE IF Len(kept) = 1 THEN Strip(kept[1])
        ELSE Strip(kept[1]) \o BlankLine \o JoinParts(Tail(kept))

\* One include / include_raw step, lines 274-309.  The result's out is the
\* fragment; skipped says the step was left out with a warning.
IncludeStep(fs, step, variables, agent_name, st, fuel) ==
    IF step.value = <<>>
    THEN [st |-> Warn(st, "empty_path", step.key, NoPath), skipped |-> TRUE]
    ELSE
    Bind(SubstituteVariables(fs, step.value, variables, NoPath, st, fuel), LAMBDA r1 :
        \* r1.out is resolved_path
        IF r1.err # "none" THEN [st |-> r1, skipped |-> TRUE]
        ELSE IF Strip(r1.out) = <<>>
        THEN [st |-> Warn(r1, "invalid_path", step.key, NoPath), skipped |-> TRUE]
        ELSE
        Bind(ReadFileContent(fs, r1.out, agent_name, r1), LAMBDA r2 :
            IF r2.err # "none" THEN [st |-> r2, skipped |-> TRUE]
            ELSE IF step.key # "include_raw" /\ SubstituteInIncludes(variables)
            THEN [st |-> SubstituteVariables(fs, r2.out, variables, ToStr(r1.out), r2, fuel),
                  skipped |-> FALSE]
            ELSE [st |-> r2, skipped |-> FALSE]))

\* One step of any other key, lines 310-319: the value is substituted, and
\* appended for content, separator and the heading keys.
OtherStep(fs, step, variables, st, fuel) ==
    Bind(SubstituteVariables(fs, step.value, variables, NoPath, st, fuel), LAMBDA r :
        IF r.err # "none" THEN [st |-> r, skipped |-> TRUE]
        ELSE IF step.key \in {"content", "separator"} THEN [st |-> r, skipped |-> FALSE]
        ELSE IF step.key \in HeadingKeys
        THEN [st |-> [r EXCEPT !.out = Hashes(HeadingLevel(step.key)) \o <<SP>> \o r.out],
              skipped |-> FALSE]
        ELSE [st |-> r, skipped |-> TRUE])

\* The loop of _run_simple_assembly over the steps, collecting parts.
RECURSIVE AssemblySteps(_, _, _, _, _, _, _)
AssemblySteps(fs, steps, variables, agent_name, parts, st, fuel) ==
    IF steps = <<>> \/ st.err # "none" THEN [parts |-> parts, st |-> st]
    ELSE Bind(IF Head(steps).key \in {"include", "include_raw"}
              THEN IncludeStep(fs, Head(steps), variables, agent_name, st, fuel)
              ELSE OtherStep(fs, Head(steps), variables, st, fuel),
              LAMBDA r :
                 Bind(r.st, LAMBDA s2 :
                 Bind(IF r.skipped THEN parts ELSE Append(parts, s2.out), LAMBDA ps :
                    AssemblySteps(fs, Tail(steps), variables, agent_name, ps, s2, fuel))))

\* PromptComposer._run_simple_assembly.  The result's out is the prompt.
RunSimpleAssembly(fs, agent_config, variables, agent_name, st, fuel) ==
    Bind(AssemblySteps(fs, agent_config.assembly, variables, agent_name, <<>>, st, fuel),
         LAMBDA r : [r.st EXCEPT !.out = IF r.st.err = "none" THEN JoinParts(r.parts)
                                         ELSE <<>>])

(***************************************************************************)
(* compose_agent.                                                          *)
(***************************************************************************)
\* A variant of StartTracking that keeps what the agent's set held.
StartTrackingKeep(deps, agent_name) ==
    IF agent_name \in DOMAIN deps
    THEN [deps EXCEPT ![agent_name] = deps[agent_name] \cup {config_path}]
    ELSE Merge(deps, [x \in {agent_name} |-> {config_path}])

\* compose_agent, line 367: self.dependencies[agent_name] = {self.config_path}
StartTracking(deps, agent_name) ==
    Merge(deps, [x \in {agent_name} |-> {config_path}])

\* compose_agent, lines 370-380: the effective settings handed to the resolver.
ExtraContext(cfg, agent_config) ==
    [x \in {"_settings"} |->
        SettingsVal(EffectiveFlag(agent_config.warn, cfg.settings.warn),
                    EffectiveFlag(agent_config.sub, cfg.settings.sub))]

\* agent_config.get(key) or settings.get(key)
AgentOrGlobal(agent_text, settings_text) ==
    IF agent_text # <<>> THEN agent_text ELSE settings_text

\* The template strategy, lines 388-409.  tfile is the template file recorded
\* (<<>> when the strategy failed before recording one).
TemplateStrategy(cfg, fs, agent_config, variables, agent_name, st, fuel) ==
    IF AgentOrGlobal(agent_config.template, cfg.settings.template) = <<>>
    THEN [st |-> [st EXCEPT !.out = <<>>, !.err = "PromptScribeError"],
          tfile |-> <<>>, missing_template |-> TRUE]
    ELSE
    Bind(SubstituteVariables(fs, AgentOrGlobal(agent_config.template, cfg.settings.template),
                             variables, NoPath, st, fuel), LAMBDA r1 :
        \* r1.out is template_name
        IF r1.err # "none" THEN [st |-> r1, tfile |-> <<>>, missing_template |-> FALSE]
        ELSE
        Bind(Normalize(Components(r1.out, ""),
                       ResolvePath(WithDefault(cfg.settings.templates_dir, "templates"))),
             LAMBDA tfile :
        Bind([r1 EXCEPT !.deps = [r1.deps EXCEPT ![agent_name] = @ \cup {tfile}],
                        !.out = <<>>], LAMBDA s2 :
            IF FileAt(fs, tfile).st # "ok"
            THEN [st |-> [s2 EXCEPT !.err = "PromptScribeError"],
                  tfile |-> tfile, missing_template |-> FALSE]
            ELSE Bind(RenderFrom(fs, DropTrailingNewline(FileAt(fs, tfile).content),
                                 variables, agent_name, "default", s2, fuel),
                      LAMBDA r3 :
                        [st |-> IF r3.err = "none" THEN r3
                                ELSE [r3 EXCEPT !.out = <<>>, !.err = "PromptScribeError"],
                         tfile |-> tfile, missing_template |-> FALSE]))))

\* A variant of OutputPath that puts every named file under the output
\* directory.
OutputPathJoined(cfg, fs, agent_config, variables, agent_name, st, fuel) ==
    Bind(SubstituteVariables(fs, WithDefault(cfg.settings.output_dir, "composed_prompts"),
                             variables, NoPath, st, fuel), LAMBDA r1 :
        IF r1.err # "none" THEN [st |-> r1, path |-> <<>>]
        ELSE IF AgentOrGlobal(agent_config.output_file, cfg.settings.output_file) # <<>>
        THEN Bind(SubstituteVariables(fs, AgentOrGlobal(agent_config.output_file,
                                                        cfg.settings.output_file),
                                      variables, NoPath, r1, fuel), LAMBDA r2 :
                [st |-> r2,
                 path |-> IF r2.err # "none" THEN <<>>
                          ELSE JoinPath(ResolvePath(r1.out), r2.out)])
        ELSE [st |-> r1, path |-> ResolvePath(r1.out) \o <<agent_name \o ".md">>])

\* The output location, lines 412-420.  path is the output file's path.
OutputPath(cfg, fs, agent_config, variables, agent_name, st, fuel) ==
    Bind(SubstituteVariables(fs, WithDefault(cfg.settings.output_dir, "composed_prompts"),
                             variables, NoPath, st, fuel), LAMBDA r1 :
        \* ResolvePath(r1.out) is output_dir
        IF r1.err # "none" THEN [st |-> r1, path |-> <<>>]
        ELSE IF AgentOrGlobal(agent_config.output_file, cfg.settings.output_file) # <<>>
        THEN Bind(SubstituteVariables(fs, AgentOrGlobal(agent_config.output_file,
                                                        cfg.settings.output_file),
                                      variables, NoPath, r1, fuel), LAMBDA r2 :
                \* r2.out is output_file_name
                [st |-> r2,
                 path |-> IF r2.err # "none" THEN <<>>
                          ELSE IF HasSeparator(r2.out) THEN ResolvePath(r2.out)
                          ELSE JoinPath(ResolvePath(r1.out), r2.out)])
        ELSE [st |-> r1, path |-> ResolvePath(r1.out) \o <<agent_name \o ".md">>])

\* What a call of compose_agent leaves behind.
ComposeResult(deps, ofs, odirs, ctx, err, prompt, reads, warns, phase, tfile, out_path, strategy) ==
    [deps |-> deps, outfs |-> ofs, outdirs |-> odirs, ctx |-> ctx, err |-> err,
     prompt |-> prompt, reads |-> reads, warns |-> warns, phase |-> phase,
     tfile |-> tfile, out_path |-> out_path, strategy |-> strategy]

\* compose_agent, lines 422-425: the parent directories are made, the file
\* is written, and the success message prints the path relative to the
\* working directory, which raises ValueError for a path outside it.
WriteOutput(ofs, odirs, st, final_prompt, tfile, path, strategy) ==
    ComposeResult(st.deps, Merge(ofs, [x \in {path} |-> final_prompt]),
                  odirs \cup {Parent(path)}, st.ctx,
                  IF UnderCwd(path) THEN "none" ELSE "ValueError",
                  final_prompt, st.reads, st.warns, "written", tfile, path, strategy)

\* A variant of FinishCompose that writes the file in a dry run too.
FinishComposeAlways(cfg, fs, ofs, odirs, agent_config, variables, agent_name, dry_run, body, tfile, strategy) ==
    Bind(OutputPath(cfg, fs, agent_config, variables, agent_name, body, MaxNesting),
         LAMBDA loc :
            IF loc.st.err # "none"
            THEN ComposeResult(body.deps, ofs, odirs, loc.st.ctx, loc.st.err, body.out,
                               body.reads, loc.st.warns, "output", tfile, <<>>, strategy)
            ELSE ComposeResult(body.deps, Merge(ofs, [x \in {loc.path} |-> body.out]),
                               odirs \cup {Parent(loc.path)}, loc.st.ctx, "none", body.out,
                               body.reads, loc.st.warns, "written", tfile, loc.path, strategy))

\* compose_agent, lines 411-425, with final_prompt in body.out.
FinishCompose(cfg, fs, ofs, odirs, agent_config, variables, agent_name, dry_run, body, tfile, strategy) ==
    IF dry_run
    THEN ComposeResult(body.deps, ofs, odirs, body.ctx, "none", body.out,
                       body.reads, body.warns, "output", tfile, <<>>, strategy)
    ELSE Bind(OutputPath(cfg, fs, agent_config, variables, agent_name, body, MaxNesting),
              LAMBDA loc :
                IF loc.st.err # "none"
                THEN ComposeResult(loc.st.deps, ofs, odirs, loc.st.ctx, loc.st.err, body.out,
                                   loc.st.reads, loc.st.warns, "output", tfile, <<>>, strategy)
                ELSE WriteOutput(ofs, odirs, loc.st, body.out, tfile, loc.path, strategy))

\* compose_agent, lines 384-409: the strategy the agent's definition selects.
\* The result is the strategy's state and the template file it recorded.
RunStrategy(cfg, fs, agent_config, variables, agent_name, st) ==
    IF agent_config.has_assembly
    THEN [st |-> RunSimpleAssembly(fs, agent_config, variables, agent_name, st, MaxNesting),
          tfile |-> <<>>, strategy |-> "assembly"]
    ELSE Bind(TemplateStrategy(cfg, fs, agent_config, variables, agent_name, st, MaxNesting),
              LAMBDA t : [st |-> t.st, tfile |-> t.tfile, strategy |-> "template"])

\* PromptComposer.compose_agent.  phase names how far the call got:
\* "not_found", "variables", "assembly", "template", "output" (dry run done,
\* or stopped while working out the location), "written".
ComposeAgent(cfg, fs, deps, ofs, odirs, ctx, agent_name, dry_run) ==
    IF agent_name \notin DOMAIN cfg.agents \/ IsFalsy(cfg.agents[agent_name])
    THEN ComposeResult(deps, ofs, odirs, ctx, "PromptScribeError", <<>>, {}, <<>>,
                       "not_found", <<>>, <<>>, "none")
    ELSE
    Bind(cfg.agents[agent_name], LAMBDA agent_config :
    Bind(StartState(StartTracking(deps, agent_name), ctx), LAMBDA st0 :
    Bind(ResolveVariables(cfg, fs, agent_name, ExtraContext(cfg, agent_config),
                          st0, MaxNesting), LAMBDA rv :
        IF rv.st.err # "none"
        THEN ComposeResult(rv.st.deps, ofs, odirs, rv.st.ctx, rv.st.err, <<>>,
                           rv.st.reads, rv.st.warns, "variables", <<>>, <<>>, "none")
        ELSE
        Bind(RunStrategy(cfg, fs, agent_config, rv.vars, agent_name, rv.st), LAMBDA b :
            IF b.st.err # "none"
            THEN ComposeResult(b.st.deps, ofs, odirs, b.st.ctx, b.st.err, <<>>,
                               b.st.reads, b.st.warns, b.strategy, b.tfile, <<>>, b.strategy)
            ELSE FinishCompose(cfg, fs, ofs, odirs, agent_config, rv.vars, agent_name,
                               dry_run, b.st, b.tfile, b.strategy)))))

(***************************************************************************)
(* The dependency queries.                                                 *)
(***************************************************************************)
\* The agents with a dependency set, in the order of the configuration.
TrackedAgents(cfg, deps) == SelectSeq(cfg.names, LAMBDA a : a \in DOMAIN deps)

\* PromptComposer.get_all_dependencies
GetAllDependencies(deps) == UNION {deps[a] : a \in DOMAIN deps}

\* A variant of GetReverseDependencies that leaves the configuration file out.
RECURSIVE GetReverseDependenciesNoConfig(_, _)
GetReverseDependenciesNoConfig(agents, deps) ==
    IF agents = <<>> THEN [x \in {} |-> <<>>]
    ELSE LET rest == GetReverseDependenciesNoConfig(Tail(agents), deps)
             a == Head(agents)
         IN  [path \in (DOMAIN rest) \cup (deps[a] \ {config_path}) |->
                 (IF path \in deps[a] THEN <<a>> ELSE <<>>)
                 \o (IF path \in DOMAIN rest THEN rest[path] ELSE <<>>)]

\* PromptComposer.get_reverse_dependencies: for each agent and each of its
\* paths, the agent is appended to the path's list.
RECURSIVE GetReverseDependencies(_, _)
GetReverseDependencies(agents, deps) ==
    IF agents = <<>> THEN [x \in {} |-> <<>>]
    ELSE LET rest == GetReverseDependencies(Tail(agents), deps)
             a == Head(agents)
         IN  [path \in (DOMAIN rest) \cup deps[a] |->
                 (IF path \in deps[a] THEN <<a>> ELSE <<>>)
                 \o (IF path \in DOMAIN rest THEN rest[path] ELSE <<>>)]

(***************************************************************************)
(* The state machine.                                                      *)
(***************************************************************************)
NoDeps == [x \in {} |-> {}]
NoFiles == [x \in {} |-> <<>>]

InitialContext == [file_path |-> NoPath, warn |-> TRUE]

IdleRun == [status |-> "idle", explicit |-> FALSE, given |-> <<>>, targets |-> <<>>,
            attempted |-> <<>>, failed |-> <<>>, code |-> 0]

NoOp == [op |-> "none", agent |-> "", dry |-> FALSE, input |-> <<>>, err |-> "none",
         prompt |-> <<>>, reads |-> {}, warns |-> <<>>, phase |-> "", tfile |-> <<>>, out_path |-> <<>>,
         strategy |-> "none", extra |-> NoVars, vars |-> NoVars]

LastOf(op, agent_name, dry_run, r) ==
    [op |-> op, agent |-> agent_name, dry |-> dry_run, input |-> <<>>, err |-> r.err,
     prompt |-> r.prompt,
     reads |-> r.reads, warns |-> r.warns, phase |-> r.phase, tfile |-> r.tfile,
     out_path |-> r.out_path, strategy |-> r.strategy, extra |-> NoVars, vars |-> NoVars]

DefaultSettings ==
    [warn |-> "unset", sub |-> "unset", template |-> <<>>, templates_dir |-> <<>>,
     output_dir |-> <<>>, output_file |-> <<>>]

Ok(content) == [st |-> "ok", content |-> content]
Unreadable == [st |-> "unreadable", content |-> <<>>]

F(name) == base_dir \o <<name>>
T(name) == base_dir \o <<"templates", name>>

\* A call of composer.compose_agent(agent_name, dry_run) from outside a run.
Compose(agent_name, dry_run) ==
    /\ run.status = "idle"
    /\ \E r \in {ComposeAgent(config, files, dependencies, outfs, outdirs, subst_context,
                              agent_name, dry_run)} :
           /\ dependencies' = r.deps
           /\ outfs' = r.outfs
           /\ outdirs' = r.outdirs
           /\ subst_context' = r.ctx
           /\ last' = LastOf("compose", agent_name, dry_run, r)
    /\ UNCHANGED <<config, files, run, watch_vars>>

\* The loop of analyze_dependencies: a dry run of each agent in turn; a
\* PromptScribeError is a warning, any other exception ends the loop.
RECURSIVE AnalyzeFrom(_, _, _, _, _, _)
AnalyzeFrom(cfg, fs, agents, deps, ctx, err) ==
    IF agents = <<>> \/ err \notin {"none", "PromptScribeError"}
    THEN [deps |-> deps, ctx |-> ctx, err |-> IF err = "PromptScribeError" THEN "none" ELSE err]
    ELSE Bind(ComposeAgent(cfg, fs, deps, NoFiles, {}, ctx, Head(agents), TRUE),
              LAMBDA r : AnalyzeFrom(cfg, fs, Tail(agents), r.deps, r.ctx, r.err))

\* PromptComposer.analyze_dependencies
AnalyzeDependencies ==
    /\ run.status = "idle"
    /\ \E r \in {AnalyzeFrom(config, files, GetAllAgentNames(config), dependencies,
                             subst_context, "none")} :
           /\ dependencies' = r.deps
           /\ subst_context' = r.ctx
           /\ last' = [NoOp EXCEPT !.op = "analyze", !.err = r.err]
    /\ UNCHANGED <<config, files, outfs, outdirs, run, watch_vars>>

\* A call of composer._substitute_variables(text, variables) with the global
\* variables and a _settings mapping that carries the warn flag.
Substitute(text, warn) ==
    /\ run.status = "idle"
    /\ \E r \in {SubstituteVariables(files, text,
                                     Put(config.variables, "_settings", SettingsVal(warn, TRUE)),
                                     NoPath, StartState(dependencies, subst_context),
                                     MaxNesting)} :
           /\ dependencies' = r.deps
           /\ subst_context' = r.ctx
           /\ last' = [NoOp EXCEPT !.op = "substitute", !.err = r.err, !.prompt = r.out,
                                   !.reads = r.reads, !.warns = r.warns,
                                   !.input = text]
    /\ UNCHANGED <<config, files, outfs, outdirs, run, watch_vars>>

\* A call of composer._resolve_variables(agent_name, extra_context).
Resolve(agent_name, extra_context) ==
    /\ run.status = "idle"
    /\ \E r \in {ResolveVariables(config, files, agent_name, extra_context,
                                  StartState(dependencies, subst_context), MaxNesting)} :
           /\ dependencies' = r.st.deps
           /\ subst_context' = r.st.ctx
           /\ last' = [NoOp EXCEPT !.op = "resolve", !.agent = agent_name, !.err = r.st.err,
                                   !.reads = r.st.reads, !.warns = r.st.warns,
                                   !.extra = extra_context, !.vars = r.vars]
    /\ UNCHANGED <<config, files, outfs, outdirs, run, watch_vars>>

\* The user saves, deletes or locks a file of the project.
EditFile(p, f) ==
    /\ run.status = "idle"
    /\ p \in DOMAIN files
    /\ files[p] # f
    /\ files' = [files EXCEPT ![p] = f]
    /\ last' = NoOp
    /\ UNCHANGED <<config, dependencies, outfs, outdirs, subst_context, run, watch_vars>>

\* cli.compose calls _compose_agents(composer, agent_names or []), line 345:
\* the targets are the names given, or every configured agent (line 142).
StartRun(agent_names) ==
    /\ run.status = "idle"
    /\ run' = [status |-> IF agent_names = <<>> /\ GetAllAgentNames(config) = <<>>
                          THEN "exited" ELSE "running",
               explicit |-> agent_names # <<>>,
               given |-> agent_names,
               targets |-> IF agent_names # <<>> THEN agent_names
                           ELSE GetAllAgentNames(config),
               attempted |-> <<>>, failed |-> <<>>, code |-> 0]
    /\ last' = NoOp
    /\ UNCHANGED <<config, files, dependencies, outfs, outdirs, subst_context, watch_vars>>

\* A variant of RunAfter that reports a PromptScribeError and goes on when
\* the run composes every agent.
RunAfterContinue(r, agent_name, err) ==
    LET rest == Tail(r.targets)
        att == Append(r.attempted, agent_name)
    IN  IF err = "none" \/ (err = "PromptScribeError" /\ ~r.explicit)
        THEN [r EXCEPT !.targets = rest, !.attempted = att,
                       !.failed = IF err = "none" THEN r.failed ELSE Append(r.failed, agent_name),
                       !.status = IF rest = <<>> THEN "exited" ELSE "running"]
        ELSE [r EXCEPT !.targets = rest, !.attempted = att,
                       !.failed = Append(r.failed, agent_name),
                       !.status = IF err = "PromptScribeError" THEN "exited" ELSE "crashed",
                       !.code = 1]

\* One turn of the loop of _compose_agents, lines 147-152, after
\* compose_agent(agent_name) ended with err: a PromptScribeError is reported
\* and typer.Exit(1) raised; any other exception leaves the command as it is.
RunAfter(r, agent_name, err) ==
    LET rest == Tail(r.targets)
        att == Append(r.attempted, agent_name)
    IN  IF err = "none"
        THEN [r EXCEPT !.targets = rest, !.attempted = att,
                       !.status = IF rest = <<>> THEN "exited" ELSE "running"]
        ELSE [r EXCEPT !.targets = rest, !.attempted = att,
                       !.failed = Append(r.failed, agent_name),
                       !.status = IF err = "PromptScribeError" THEN "exited" ELSE "crashed",
                       !.code = 1]

\* _compose_agents composes its next target.
RunStep ==
    /\ run.status = "running"
    /\ \E r \in {ComposeAgent(config, files, dependencies, outfs, outdirs, subst_context,
                              Head(run.targets), FALSE)} :
           /\ dependencies' = r.deps
           /\ outfs' = r.outfs
           /\ outdirs' = r.outdirs
           /\ subst_context' = r.ctx
           /\ last' = LastOf("compose", Head(run.targets), FALSE, r)
           /\ run' = RunAfter(run, Head(run.targets), r.err)
    /\ UNCHANGED <<config, files, watch_vars>>

(***************************************************************************)
(* Watch mode (cli.py, lines 155-305 and 347-355).  After the compose      *)
(* command has composed its agents it analyses the dependencies of every   *)
(* agent and starts a watcher: an observer on the parent directories of    *)
(* the dependencies and a ChangeHandler that receives the events.  The     *)
(* handler keeps the composer it was built with, the reverse dependencies  *)
(* of that composer and the time of the last event.  prompts.yml is taken  *)
(* to be loadable whenever a composer is built from it.                    *)
(***************************************************************************)
\* ChangeHandler.debounce_interval, line 166: 0.5 s, in quarters of a second.
debounce_interval == 2

\* Composers that may wait in the restart queue while events still arrive.
MaxRestarts == 1

Members(seq) == {seq[i] : i \in DOMAIN seq}

\* The orders in which list(a_set) may yield the members of a set.
ListsOf(S) ==
    {s \in [1..Cardinality(S) -> S] : \A i, j \in 1..Cardinality(S) : s[i] = s[j] => i = j}

\* A sequence without its repeats.
RECURSIVE Distinct(_, _)
Distinct(seq, seen) ==
    IF seq = <<>> THEN <<>>
    ELSE IF Head(seq) \in seen THEN Distinct(Tail(seq), seen)
    ELSE <<Head(seq)>> \o Distinct(Tail(seq), seen \cup {Head(seq)})

\* Path.is_relative_to
IsRelativeTo(p, d) == Len(p) >= Len(d) /\ SubSeq(p, 1, Len(d)) = d

\* What the watcher uses of a PromptComposer: its configuration, its
\* dependencies and the keys of the dependencies in insertion order.
Composer(cfg, deps, tracked) == [config |-> cfg, dependencies |-> deps, tracked |-> tracked]

EmptyConfig ==
    [settings |-> DefaultSettings, variables |-> NoVars, order |-> <<>>, names |-> <<>>,
     agents |-> [x \in {} |-> EmptyAgentConfig]]

NoComposer == Composer(EmptyConfig, NoDeps, <<>>)

\* What the handler did with the last event: handled is "debounced",
\* "ignored" (a directory or another kind of event), "output", "skipped",
\* "dependency" or "config"; composed lists the agents compose_agent was
\* called for, err is the exception on_any_event caught, fresh the composer
\* the handler built.
NoEvent ==
    [handled |-> "none", src_path |-> <<>>, event_type |-> "none", is_directory |-> FALSE,
     composed |-> <<>>, err |-> "none", fresh |-> NoComposer]

NoWatcher ==
    [status |-> "off", agent_names |-> <<>>, composer |-> NoComposer,
     reverse_dependencies |-> [x \in {} |-> <<>>], watch_paths |-> {},
     restart_queue |-> <<>>, event |-> NoEvent]

\* No watcher runs; the clock is far from the handler's initial
\* last_event_time of 0.
WatchOff ==
    /\ prompts_yml = config
    /\ watcher = NoWatcher
    /\ elapsed = debounce_interval

\* {p.parent for p in composer.get_all_dependencies()}
WatchDirs(deps) == {Parent(p) : p \in GetAllDependencies(deps)}

\* _run_watcher, lines 275-290: the directories scheduled and the handler
\* built by ChangeHandler.__init__, lines 158-166.
RunWatcher(composer, agent_names) ==
    [status |-> "watching", agent_names |-> agent_names, composer |-> composer,
     reverse_dependencies |-> GetReverseDependencies(composer.tracked, composer.dependencies),
     watch_paths |-> IF WatchDirs(composer.dependencies) = {} THEN {base_dir}
                     ELSE WatchDirs(composer.dependencies),
     restart_queue |-> <<>>, event |-> NoEvent]

\* The loop of _compose_agents, lines 147-152, run to its end: composed
\* lists the agents compose_agent was called for; a PromptScribeError ends
\* the loop with typer.Exit(1), any other exception with itself.
RECURSIVE ComposeAgentsFrom(_, _, _, _, _, _, _, _)
ComposeAgentsFrom(cfg, fs, targets, deps, ofs, odirs, ctx, composed) ==
    IF targets = <<>>
    THEN [deps |-> deps, outfs |-> ofs, outdirs |-> odirs, ctx |-> ctx, err |-> "none",
          composed |-> composed]
    ELSE Bind(ComposeAgent(cfg, fs, deps, ofs, odirs, ctx, Head(targets), FALSE), LAMBDA r :
            IF r.err # "none"
            THEN [deps |-> r.deps, outfs |-> r.outfs, outdirs |-> r.outdirs, ctx |-> r.ctx,
                  err |-> IF r.err = "PromptScribeError" THEN "Exit" ELSE r.err,
                  composed |-> Append(composed, Head(targets))]
            ELSE ComposeAgentsFrom(cfg, fs, Tail(targets), r.deps, r.outfs, r.outdirs, r.ctx,
                                   Append(composed, Head(targets))))

\* _compose_agents(composer, agent_names), lines 140-152.
ComposeAgents(cfg, fs, agent_names, deps, ofs, odirs, ctx) ==
    ComposeAgentsFrom(cfg, fs,
                      IF agent_names # <<>> THEN agent_names ELSE GetAllAgentNames(cfg),
                      deps, ofs, odirs, ctx, <<>>)

\* old_agents.get(name) != new_agents.get(name)
AgentDiffers(old_config, new_config, name) ==
    IF name \in DOMAIN old_config.agents /\ name \in DOMAIN new_config.agents
    THEN old_config.agents[name] # new_config.agents[name]
    ELSE TRUE

\* ChangeHandler.find_changed_agents
FindChangedAgents(agent_names, old_config, new_config) ==
    IF old_config.settings # new_config.settings
       \/ old_config.variables # new_config.variables
    THEN Members(IF agent_names # <<>> THEN agent_names ELSE GetAllAgentNames(new_config))
    ELSE {name \in (DOMAIN old_config.agents) \cup (DOMAIN new_config.agents) :
             /\ agent_names = <<>> \/ name \in Members(agent_names)
             /\ AgentDiffers(old_config, new_config, name)}

\* What a handler leaves behind: the watcher, the output files, and what is
\* recorded of the event.
Handled(w, ofs, odirs, handled, composed, err, fresh) ==
    [w |-> w, outfs |-> ofs, outdirs |-> odirs, handled |-> handled, composed |-> composed,
     err |-> err, fresh |-> fresh]

\* ChangeHandler.handle_dependency_change: the agents listed for the path
\* are composed by a fresh composer built from prompts.yml (cfg).
HandleDependencyChange(w, cfg, fs, ofs, odirs, src_path) ==
    IF src_path \notin DOMAIN w.reverse_dependencies
    THEN Handled(w, ofs, odirs, "skipped", <<>>, "none", NoComposer)
    ELSE Bind(ComposeAgents(cfg, fs, w.reverse_dependencies[src_path], NoDeps, ofs, odirs,
                            InitialContext), LAMBDA r :
            Handled(w, r.outfs, r.outdirs, "dependency", r.composed, r.err,
                    Composer(cfg, r.deps,
                             SelectSeq(r.composed, LAMBDA a : a \in DOMAIN r.deps))))

\* handle_config_change, lines 237-244, once the agents are recomposed:
\* a restart is signalled when the directories differ, else the handler
\* takes the fresh composer.
AdoptComposer(w, new_watch_dirs, fresh) ==
    IF WatchDirs(w.composer.dependencies) # new_watch_dirs
    THEN [w EXCEPT !.restart_queue = Append(@, fresh)]
    ELSE [w EXCEPT !.composer = fresh,
                   !.reverse_dependencies =
                       GetReverseDependencies(fresh.tracked, fresh.dependencies)]

\* ChangeHandler.handle_config_change: cfg is what prompts.yml holds, order
\* is list(agents_to_rebuild).
HandleConfigChange(w, cfg, fs, ofs, odirs, order) ==
    Bind(AnalyzeFrom(cfg, fs, GetAllAgentNames(cfg), NoDeps, InitialContext, "none"),
         LAMBDA an :
    IF an.err # "none"
    THEN Handled(w, ofs, odirs, "config", <<>>, an.err,
                 Composer(cfg, an.deps, TrackedAgents(cfg, an.deps)))
    ELSE
    Bind(IF order = <<>>
         THEN [deps |-> an.deps, outfs |-> ofs, outdirs |-> odirs, ctx |-> an.ctx,
               err |-> "none", composed |-> <<>>]
         ELSE ComposeAgents(cfg, fs, order, an.deps, ofs, odirs, an.ctx), LAMBDA r :
    Bind(Composer(cfg, r.deps, TrackedAgents(cfg, r.deps)), LAMBDA fresh :
        IF r.err # "none"
        THEN Handled(w, r.outfs, r.outdirs, "config", r.composed, r.err, fresh)
        ELSE Handled(AdoptComposer(w, WatchDirs(an.deps), fresh), r.outfs, r.outdirs,
                     "config", r.composed, "none", fresh))))

\* The events the handler lets through, line 174.
EventTypes == {"modified", "created", "deleted"}

\* on_any_event, lines 169-171: an event that comes within the debounce
\* interval of the last one is dropped.
Debounced(time_since) == time_since < debounce_interval

\* ChangeHandler.on_any_event, lines 174-194, for an event that was not
\* debounced.
DispatchEvent(w, cfg, fs, ofs, odirs, src_path, event_type, is_directory, order) ==
    IF is_directory \/ event_type \notin EventTypes
    THEN Handled(w, ofs, odirs, "ignored", <<>>, "none", NoComposer)
    ELSE IF IsRelativeTo(src_path,
                         ResolvePath(WithDefault(w.composer.config.settings.output_dir,
                                                 "composed_prompts")))
    THEN Handled(w, ofs, odirs, "output", <<>>, "none", NoComposer)
    ELSE IF src_path = config_path
    THEN HandleConfigChange(w, cfg, fs, ofs, odirs, order)
    ELSE HandleDependencyChange(w, cfg, fs, ofs, odirs, src_path)

\* cli.compose, lines 347-355: the dependencies of every agent are analysed
\* and the first watcher is started.  The command got here only if
\* _compose_agents returned.
StartWatch ==
    /\ run.status = "exited"
    /\ run.code = 0
    /\ watcher.status = "off"
    /\ \E r \in {AnalyzeFrom(config, files, GetAllAgentNames(config), dependencies,
                             subst_context, "none")} :
           /\ dependencies' = r.deps
           /\ subst_context' = r.ctx
           /\ IF r.err # "none"
              THEN /\ run' = [run EXCEPT !.status = "crashed", !.code = 1]
                   /\ UNCHANGED watcher
              ELSE /\ watcher' = RunWatcher(
                           Composer(config, r.deps,
                                    SelectSeq(Distinct(run.attempted \o GetAllAgentNames(config), {}),
                                              LAMBDA a : a \in DOMAIN r.deps)),
                           run.given)
                   /\ UNCHANGED run
    /\ UNCHANGED <<config, files, outfs, outdirs, last, prompts_yml, elapsed>>

\* The observer hands an event under a watched directory to
\* ChangeHandler.on_any_event.
OnAnyEvent(src_path, event_type, is_directory) ==
    /\ watcher.status = "watching"
    /\ Len(watcher.restart_queue) < MaxRestarts
    /\ \E d \in watcher.watch_paths : IsRelativeTo(src_path, d)
    /\ \E order \in ListsOf(FindChangedAgents(watcher.agent_names, watcher.composer.config,
                                              prompts_yml)) :
       \E r \in {IF Debounced(elapsed)
                 THEN Handled(watcher, outfs, outdirs, "debounced", <<>>, "none",
                              NoComposer)
                 ELSE DispatchEvent(watcher, prompts_yml, files, outfs, outdirs,
                                    src_path, event_type, is_directory, order)} :
           /\ watcher' = [r.w EXCEPT !.event =
                             [handled |-> r.handled, src_path |-> src_path,
                              event_type |-> event_type, is_directory |-> is_directory,
                              composed |-> r.composed, err |-> r.err, fresh |-> r.fresh]]
           /\ outfs' = r.outfs
           /\ outdirs' = r.outdirs
           \* line 172: self.last_event_time = current_time
           /\ elapsed' = IF Debounced(elapsed) THEN elapsed ELSE 0
    /\ UNCHANGED <<config, files, dependencies, subst_context, run, last, prompts_yml>>

\* A quarter of a second passes.
Tick ==
    /\ watcher.status = "watching"
    /\ elapsed < debounce_interval
    /\ elapsed' = elapsed + 1
    /\ UNCHANGED <<config, files, dependencies, outfs, outdirs, subst_context, run, last,
                   prompts_yml, watcher>>

\* _run_watcher, lines 293-297, and the loop of cli.compose, lines 352-353:
\* the composer taken from the queue is returned, the observer is stopped
\* and the next watcher is started with it.
RestartWatcher ==
    /\ watcher.status = "watching"
    /\ watcher.restart_queue # <<>>
    /\ watcher' = RunWatcher(Head(watcher.restart_queue), watcher.agent_names)
    /\ elapsed' = debounce_interval
    /\ UNCHANGED <<config, files, dependencies, outfs, outdirs, subst_context, run, last,
                   prompts_yml>>

\* _run_watcher, lines 299-301: Ctrl+C ends the watcher and the command.
Interrupt ==
    /\ watcher.status = "watching"
    /\ watcher.restart_queue = <<>>
    /\ watcher' = [watcher EXCEPT !.status = "stopped"]
    /\ UNCHANGED <<config, files, dependencies, outfs, outdirs, subst_context, run, last,
                   prompts_yml, elapsed>>

\* While the watcher runs, the user saves a file of the project.
SaveFile(p, f) ==
    /\ watcher.status = "watching"
    /\ p \in DOMAIN files
    /\ files[p] # f
    /\ files' = [files EXCEPT ![p] = f]
    /\ UNCHANGED <<config, dependencies, outfs, outdirs, subst_context, run, last,
                   prompts_yml, watcher, elapsed>>

\* While the watcher runs, the user saves prompts.yml.
SaveConfig(cfg) ==
    /\ watcher.status = "watching"
    /\ prompts_yml # cfg
    /\ prompts_yml' = cfg
    /\ UNCHANGED <<config, files, dependencies, outfs, outdirs, subst_context, run, last,
                   watcher, elapsed>>

(***************************************************************************)
(* Spec: one composer, two agents and the files they pull in.  a1 is       *)
(* assembled from steps, a2 is rendered from the template t1; the variable *)
(* V names or reads a file.  The user edits the files between calls.       *)
(***************************************************************************)
MkConfig(settings, variables, order, names, agents) ==
    [settings |-> settings, variables |-> variables, order |-> order,
     names |-> names, agents |-> agents]

DepVarChoices == {<<Lit("f2")>>, <<RF("f2")>>}

DepAssemblyChoices ==
    {<<Step("include", <<Lit("f1")>>)>>,
     <<Step("include_raw", <<Ref("V", 1)>>), Step("content", <<Ref("V", 1)>>)>>}

DepFileChoices(p) ==
    IF p = F("f1") THEN {Ok(<<Lit("x")>>), Ok(<<RF("f2")>>), MissingFile}
    ELSE IF p = T("t1") THEN {Ok(<<RF("f1")>>), Ok(<<Lit("t")>>)}
    ELSE {}

DepFiles == {F("f1"), F("f2"), T("t1")}

DepAgents(asm) ==
    [a \in {"a1", "a2"} |->
        IF a = "a1" THEN AgentConfig(NoVars, TRUE, asm, <<>>, <<>>, "unset", "unset")
        ELSE AgentConfig(NoVars, FALSE, <<>>, <<Lit("t1")>>, <<>>, "unset", "unset")]

Init ==
    /\ \E v \in DepVarChoices, asm \in DepAssemblyChoices :
          config = MkConfig(DefaultSettings, [x \in {"V"} |-> StrVal(v)], <<"V">>,
                            <<"a1", "a2">>, DepAgents(asm))
    /\ files = [p \in DepFiles |-> IF p = F("f1") THEN Ok(<<Lit("x")>>)
                                   ELSE IF p = F("f2") THEN Ok(<<Lit("y")>>)
                                   ELSE Ok(<<RF("f1")>>)]
    /\ dependencies = NoDeps
    /\ outfs = NoFiles
    /\ outdirs = {}
    /\ subst_context = InitialContext
    /\ run = IdleRun
    /\ last = NoOp
    /\ WatchOff

Next ==
    \/ \E a \in {"a1", "a2", "ghost"}, d \in BOOLEAN : Compose(a, d)
    \/ AnalyzeDependencies
    \/ \E p \in DepFiles : \E f \in DepFileChoices(p) : EditFile(p, f)

Spec == Init /\ [][Next]_vars

(***************************************************************************)
(* SpecOutput: the same two agents with the files as they are found, and   *)
(* output locations of several shapes: the default one, a directory        *)
(* outside the working directory, a file name read from a file, a file     *)
(* name with a separator.                                                  *)
(***************************************************************************)
OutputChoices ==
    {DefaultSettings,
     [DefaultSettings EXCEPT !.output_dir = <<SLASH, Lit("srv"), SLASH, Lit("out")>>],
     [DefaultSettings EXCEPT !.output_file = <<RF("f3"), Lit(".md")>>],
     [DefaultSettings EXCEPT !.output_file =
         <<Lit(".."), SLASH, Lit("out"), SLASH, Ref("_agent_name", 1), Lit(".md")>>]}

OutFileChoices(p) ==
    IF p = F("f1") THEN {Ok(<<Lit("x")>>), Ok(<<RF("f2")>>), MissingFile, Unreadable}
    ELSE IF p = F("f2") THEN {Ok(<<Lit("y")>>), Ok(<<RF("f1")>>)}
    ELSE IF p = F("f3") THEN {Ok(<<Lit("name")>>)}
    ELSE {Ok(<<Lit("t"), RF("f1")>>), MissingFile}

OutFiles == {F("f1"), F("f2"), F("f3"), T("t1")}

InitOutput ==
    /\ \E st \in OutputChoices, v \in DepVarChoices, asm \in DepAssemblyChoices :
          config = MkConfig(st, [x \in {"V"} |-> StrVal(v)], <<"V">>,
                            <<"a1", "a2">>, DepAgents(asm))
    /\ files \in {fs \in [OutFiles -> UNION {OutFileChoices(p) : p \in OutFiles}] :
                     \A p \in OutFiles : fs[p] \in OutFileChoices(p)}
    /\ dependencies = NoDeps
    /\ outfs = NoFiles
    /\ outdirs = {}
    /\ subst_context = InitialContext
    /\ run = IdleRun
    /\ last = NoOp
    /\ WatchOff

NextOutput ==
    \/ \E a \in {"a1", "a2", "ghost"}, d \in BOOLEAN : Compose(a, d)
    \/ AnalyzeDependencies

SpecOutput == InitOutput /\ [][NextOutput]_vars

(***************************************************************************)
(* SpecText: one agent assembled from content steps over three variables   *)
(* A, B and C that may refer to each other; M is defined nowhere.          *)
(***************************************************************************)
\* The longest assembly of SpecText.
MaxSteps == 2

TextVarChoices ==
    {[x \in {"A", "B", "C"} |-> StrVal(IF x = "A" THEN a ELSE IF x = "B" THEN b ELSE <<Lit("3")>>)] :
        a \in {<<Ref("B", 1)>>, <<Lit("1")>>},
        b \in {<<Ref("C", 1)>>, <<Ref("A", 1)>>, <<Lit("2")>>}}

FragmentChoices ==
    {<<Ref("A", 1)>>, <<Lit("x"), Ref("M", 0)>>, <<SP>>, <<SP, Lit("y"), NL>>, <<NL>>}

TextAssemblyChoices ==
    UNION {[1..n -> {Step("content", f) : f \in FragmentChoices}] : n \in 1..MaxSteps}

SubstituteChoices ==
    {<<Ref("M", 0)>>, <<Ref("M", 1)>>, <<Lit("x"), Ref("M", 2), Ref("A", 0)>>, <<Lit("x"), NL>>}

InitText ==
    /\ \E vs \in TextVarChoices, asm \in TextAssemblyChoices, w \in {"unset", "false"} :
          config = MkConfig([DefaultSettings EXCEPT !.warn = w], vs, <<"A", "B", "C">>, <<"a1">>,
                            [a \in {"a1"} |->
                                AgentConfig(NoVars, TRUE, asm, <<>>, <<>>, "unset", "unset")])
    /\ files = NoFiles
    /\ dependencies = NoDeps
    /\ outfs = NoFiles
    /\ outdirs = {}
    /\ subst_context = InitialContext
    /\ run = IdleRun
    /\ last = NoOp
    /\ WatchOff

NextText ==
    \/ \E d \in BOOLEAN : Compose("a1", d)
    \/ \E text \in SubstituteChoices, w \in BOOLEAN : Substitute(text, w)

SpecText == InitText /\ [][NextText]_vars

(***************************************************************************)
(* SpecRun: the compose command over three agents, each of which either    *)
(* has steps to assemble or has neither steps nor a template.              *)
(***************************************************************************)
RunAgentChoices ==
    {AgentConfig(NoVars, TRUE, <<Step("content", <<Lit("x")>>)>>, <<>>, <<>>, "unset", "unset"),
     AgentConfig(NoVars, FALSE, <<>>, <<>>, <<Lit("o.md")>>, "unset", "unset")}

RunNameChoices ==
    {<<>>, <<"a1">>, <<"a3", "a1">>, <<"a2", "a3">>, <<"a1", "a2", "a3">>, <<"ghost", "a1">>}

InitRun ==
    /\ \E ags \in [{"a1", "a2", "a3"} -> RunAgentChoices] :
          config = MkConfig(DefaultSettings, NoVars, <<>>, <<"a1", "a2", "a3">>, ags)
    /\ files = NoFiles
    /\ dependencies = NoDeps
    /\ outfs = NoFiles
    /\ outdirs = {}
    /\ subst_context = InitialContext
    /\ run = IdleRun
    /\ last = NoOp
    /\ WatchOff

NextRun ==
    \/ \E names \in RunNameChoices : StartRun(names)
    \/ RunStep

SpecRun == InitRun /\ [][NextRun]_vars

(***************************************************************************)
(* SpecSelect: the choice of the strategy and of the template.  a1 has     *)
(* steps and perhaps a template as well; a2 has a template of its own, or  *)
(* some other key and no template, or a definition with no key at all;     *)
(* the settings may name a default template.                               *)
(***************************************************************************)
SelectTemplateChoices == {<<>>, <<Lit("t1")>>}

SelectAgentChoices(a) ==
    IF a = "a1"
    THEN {AgentConfig(NoVars, TRUE, <<Step("content", <<Lit("x")>>)>>, t, <<>>, "unset", "unset") :
            t \in {<<>>, <<Lit("t2")>>}}
    ELSE {AgentConfig(NoVars, FALSE, <<>>, <<Lit("t2")>>, <<>>, "unset", "unset"),
          AgentConfig(NoVars, FALSE, <<>>, <<>>, <<>>, "true", "unset"),
          EmptyAgentConfig}

SelectFileChoices(p) ==
    IF p = T("t1") THEN {Ok(<<Lit("global")>>), MissingFile}
    ELSE {Ok(<<Lit("own")>>), MissingFile}

SelectFiles == {T("t1"), T("t2")}

InitSelect ==
    /\ \E g \in SelectTemplateChoices :
       \E c1 \in SelectAgentChoices("a1"), c2 \in SelectAgentChoices("a2") :
          config = MkConfig([DefaultSettings EXCEPT !.template = g], NoVars, <<>>,
                            <<"a1", "a2">>,
                            [a \in {"a1", "a2"} |-> IF a = "a1" THEN c1 ELSE c2])
    /\ files = [p \in SelectFiles |-> Ok(<<Lit(IF p = T("t1") THEN "global" ELSE "own")>>)]
    /\ dependencies = NoDeps
    /\ outfs = NoFiles
    /\ outdirs = {}
    /\ subst_context = InitialContext
    /\ run = IdleRun
    /\ last = NoOp
    /\ WatchOff

NextSelect ==
    \/ \E a \in {"a1", "a2"}, d \in BOOLEAN : Compose(a, d)
    \/ \E p \in SelectFiles : \E f \in SelectFileChoices(p) : EditFile(p, f)

SpecSelect == InitSelect /\ [][NextSelect]_vars

(***************************************************************************)
(* SpecInclude: files pulled into a composition.  f1 holds a reference to  *)
(* the variable X and one to M, which is defined nowhere, or is missing,   *)
(* or cannot be read.  a1 pulls f1 in by a step or by a helper, a2 is      *)
(* rendered from a template that calls a helper; both may be composed one  *)
(* by one or by the compose command.                                       *)
(***************************************************************************)
IncludeAssemblyChoices ==
    {<<Step("include", <<Lit("f1")>>), Step("content", <<Lit("z")>>)>>,
     <<Step("include_raw", <<Lit("f1")>>)>>,
     <<Step("content", <<RF("f1"), Ref("M", 1)>>)>>,
     <<Step("content", <<RFR("f1")>>)>>}

IncludeFileChoices == {Ok(<<Lit("a"), Ref("X", 1), Ref("M", 1)>>), MissingFile, Unreadable}

FlagChoices == {"unset", "true", "false"}

InitInclude ==
    /\ \E asm \in IncludeAssemblyChoices, t \in {"t1", "t2"} :
       \E gs \in {"unset", "false"}, as \in FlagChoices, aw \in {"unset", "false"} :
          config = MkConfig([DefaultSettings EXCEPT !.sub = gs],
                            [x \in {"X"} |-> StrVal(<<Lit("vx")>>)], <<"X">>, <<"a1", "a2">>,
                            [a \in {"a1", "a2"} |->
                                IF a = "a1"
                                THEN AgentConfig(NoVars, TRUE, asm, <<>>, <<>>, aw, as)
                                ELSE AgentConfig(NoVars, FALSE, <<>>, <<Lit(t)>>, <<>>,
                                                 "unset", "unset")])
    /\ \E f \in IncludeFileChoices :
          files = [p \in {F("f1"), T("t1"), T("t2")} |->
                      IF p = F("f1") THEN f
                      ELSE IF p = T("t1") THEN Ok(<<RF("f1"), Lit("t")>>)
                      ELSE Ok(<<RFR("f1")>>)]
    /\ dependencies = NoDeps
    /\ outfs = NoFiles
    /\ outdirs = {}
    /\ subst_context = InitialContext
    /\ run = IdleRun
    /\ last = NoOp
    /\ WatchOff

NextInclude ==
    \/ \E a \in {"a1", "a2"}, d \in BOOLEAN : Compose(a, d)
    \/ \E names \in {<<>>, <<"a2", "a1">>} : StartRun(names)
    \/ RunStep

SpecInclude == InitInclude /\ [][NextInclude]_vars

(***************************************************************************)
(* SpecVars: the resolver called for a1 and for an agent the configuration *)
(* does not have.  The global variables A, B and N (a number) may refer to *)
(* each other, a1 may override some of them, the caller's extra context    *)
(* too, and the user may have a variable called _agent_name.               *)
(***************************************************************************)
VarsGlobalChoices ==
    {Merge([x \in {"A", "B", "N"} |->
               IF x = "A" THEN StrVal(a) ELSE IF x = "B" THEN StrVal(b) ELSE IntVal("7")], u) :
        a \in {<<Ref("B", 1)>>, <<Lit("1")>>},
        b \in {<<Ref("N", 1)>>, <<Lit("2")>>},
        u \in {NoVars, [x \in {"_agent_name"} |-> StrVal(<<Lit("g")>>)]}}

VarsAgentChoices ==
    {NoVars,
     [x \in {"B"} |-> StrVal(<<Ref("A", 1)>>)],
     [x \in {"A", "_agent_name"} |-> IF x = "A" THEN IntVal("9") ELSE StrVal(<<Lit("own")>>)]}

VarsOrderChoices ==
    {<<"A", "B", "N", "_agent_name">>, <<"_agent_name", "N", "B", "A">>,
     <<"B", "A", "N", "_agent_name">>}

ExtraContextChoices ==
    {NoVars,
     [x \in {"_settings"} |-> SettingsVal(FALSE, TRUE)],
     [x \in {"A"} |-> StrVal(<<Lit("e"), Ref("B", 1)>>)],
     [x \in {"_agent_name"} |-> StrVal(<<Lit("x")>>)],
     [x \in {"N"} |-> IntVal("0")]}

InitVars ==
    /\ \E g \in VarsGlobalChoices, av \in VarsAgentChoices, o \in VarsOrderChoices :
          config = MkConfig(DefaultSettings, g, o, <<"a1">>,
                            [a \in {"a1"} |->
                                AgentConfig(av, TRUE, <<Step("content", <<Ref("A", 1)>>)>>,
                                            <<>>, <<>>, "unset", "unset")])
    /\ files = NoFiles
    /\ dependencies = NoDeps
    /\ outfs = NoFiles
    /\ outdirs = {}
    /\ subst_context = InitialContext
    /\ run = IdleRun
    /\ last = NoOp
    /\ WatchOff

NextVars ==
    \E a \in {"a1", "ghost"}, e \in ExtraContextChoices : Resolve(a, e)

SpecVars == InitVars /\ [][NextVars]_vars

(***************************************************************************)
(* SpecLocation: where the output goes.  a1 and a2 are assembled from one  *)
(* content step each; a1 has a variable V of its own and perhaps an        *)
(* output_file of its own; the settings may name an output_file and an     *)
(* output_dir.                                                             *)
(***************************************************************************)
AgentOutputFileChoices ==
    {<<>>,
     <<Lit("own-"), Ref("V", 1), Lit(".md")>>,
     <<Lit("sub"), SLASH, Ref("_agent_name", 1), Lit(".md")>>,
     <<SLASH, Lit("proj"), SLASH, Lit("abs.md")>>}

GlobalOutputFileChoices ==
    {<<>>, <<Lit("g.md")>>, <<Lit(".."), SLASH, Lit("up"), SLASH, Ref("V", 1), Lit(".md")>>}

OutputDirChoices ==
    {<<>>, <<Lit("out"), SLASH, Ref("V", 1)>>, <<SLASH, Lit("proj"), SLASH, Lit("o")>>}

InitLocation ==
    /\ \E af \in AgentOutputFileChoices, gf \in GlobalOutputFileChoices, d \in OutputDirChoices :
          config = MkConfig([DefaultSettings EXCEPT !.output_file = gf, !.output_dir = d],
                            [x \in {"V"} |-> StrVal(<<Lit("gv")>>)], <<"V">>, <<"a1", "a2">>,
                            [a \in {"a1", "a2"} |->
                                IF a = "a1"
                                THEN AgentConfig([x \in {"V"} |-> StrVal(<<Lit("av")>>)], TRUE,
                                                 <<Step("content", <<Lit("one")>>)>>, <<>>, af,
                                                 "unset", "unset")
                                ELSE AgentConfig(NoVars, TRUE,
                                                 <<Step("content", <<Lit("two")>>)>>, <<>>, <<>>,
                                                 "unset", "unset")])
    /\ files = NoFiles
    /\ dependencies = NoDeps
    /\ outfs = NoFiles
    /\ outdirs = {}
    /\ subst_context = InitialContext
    /\ run = IdleRun
    /\ last = NoOp
    /\ WatchOff

NextLocation ==
    \E a \in {"a1", "a2"}, d \in BOOLEAN : Compose(a, d)

SpecLocation == InitLocation /\ [][NextLocation]_vars

(***************************************************************************)
(* SpecSteps: one agent assembled from steps of every kind of key: known   *)
(* ones, the letter h with a number that is no heading level, and a word   *)
(* the program does not know.                                              *)
(***************************************************************************)
StepKeyChoices == {"content", "separator", "h1", "h6", "h0", "h7", "h10", "note"}

StepsAssemblyChoices ==
    UNION {[1..n -> {Step(key, <<Lit("t"), Ref("X", 1)>>) : key \in StepKeyChoices}] :
              n \in 1..MaxSteps}

InitSteps ==
    /\ \E asm \in StepsAssemblyChoices :
          config = MkConfig(DefaultSettings, [x \in {"X"} |-> StrVal(<<Lit("vx")>>)], <<"X">>,
                            <<"a1">>,
                            [a \in {"a1"} |->
                                AgentConfig(NoVars, TRUE, asm, <<>>, <<>>, "unset", "unset")])
    /\ files = NoFiles
    /\ dependencies = NoDeps
    /\ outfs = NoFiles
    /\ outdirs = {}
    /\ subst_context = InitialContext
    /\ run = IdleRun
    /\ last = NoOp
    /\ WatchOff

NextSteps ==
    \E d \in BOOLEAN : Compose("a1", d)

SpecSteps == InitSteps /\ [][NextSteps]_vars

(***************************************************************************)
(* SpecWatch: the compose command in watch mode.  a1 includes f1, a2       *)
(* includes f2; the command is started for every agent or for a1 alone.    *)
(* While the watcher runs the user saves f1, which may come to read f2,    *)
(* and prompts.yml, which may change a global variable, point a1 to a file *)
(* in another directory or leave a1 empty; events of every kind arrive.    *)
(***************************************************************************)
WatchAgentChoices ==
    {AgentConfig(NoVars, TRUE, <<Step("include", <<Lit("f1")>>)>>, <<>>, <<>>, "unset", "unset"),
     AgentConfig(NoVars, TRUE, <<Step("include", <<Lit("sub"), SLASH, Lit("f3")>>)>>,
                 <<>>, <<>>, "unset", "unset"),
     EmptyAgentConfig}

WatchConfig(v, a1) ==
    MkConfig(DefaultSettings, [x \in {"V"} |-> StrVal(<<Lit(v)>>)], <<"V">>, <<"a1", "a2">>,
             [a \in {"a1", "a2"} |->
                 IF a = "a1" THEN a1
                 ELSE AgentConfig(NoVars, TRUE, <<Step("include", <<Lit("f2")>>)>>,
                                  <<>>, <<>>, "unset", "unset")])

InitialWatchConfig ==
    WatchConfig("v", AgentConfig(NoVars, TRUE, <<Step("include", <<Lit("f1")>>)>>,
                                 <<>>, <<>>, "unset", "unset"))

WatchConfigChoices ==
    {WatchConfig("v", a1) : a1 \in WatchAgentChoices}
    \cup {[InitialWatchConfig EXCEPT !.variables = [x \in {"V"} |-> StrVal(<<Lit("w")>>)]]}

WatchFileChoices == {Ok(<<Lit("x")>>), Ok(<<RF("f2")>>)}

\* The events: a save of f1, of f2, of prompts.yml and of an output file,
\* a change of the project directory, and f1 being closed.
Event(src_path, event_type, is_directory) ==
    [src_path |-> src_path, event_type |-> event_type, is_directory |-> is_directory]

WatchEvents ==
    {Event(F("f1"), "modified", FALSE), Event(F("f2"), "modified", FALSE),
     Event(config_path, "modified", FALSE),
     Event(base_dir \o <<"composed_prompts", "a1.md">>, "modified", FALSE),
     Event(base_dir, "modified", TRUE), Event(F("f1"), "closed", FALSE)}

InitWatch ==
    /\ config = InitialWatchConfig
    /\ files = [p \in {F("f1"), F("f2"), base_dir \o <<"sub", "f3">>} |->
                   IF p = F("f1") THEN Ok(<<Lit("x")>>)
                   ELSE IF p = F("f2") THEN Ok(<<Lit("y")>>)
                   ELSE Ok(<<Lit("z")>>)]
    /\ dependencies = NoDeps
    /\ outfs = NoFiles
    /\ outdirs = {}
    /\ subst_context = InitialContext
    /\ run = IdleRun
    /\ last = NoOp
    /\ WatchOff

NextWatch ==
    \/ \E names \in {<<>>, <<"a1">>} : StartRun(names)
    \/ RunStep
    \/ StartWatch
    \/ \E e \in WatchEvents : OnAnyEvent(e.src_path, e.event_type, e.is_directory)
    \/ Tick
    \/ RestartWatcher
    \/ Interrupt
    \/ \E f \in WatchFileChoices : SaveFile(F("f1"), f)
    \/ \E cfg \in WatchConfigChoices : SaveConfig(cfg)

SpecWatch == InitWatch /\ [][NextWatch]_vars

(***************************************************************************)
(* Properties of dependency tracking, checked under Spec.                  *)
(***************************************************************************)
Range(seq) == {seq[i] : i \in 1..Len(seq)}

\* The step just taken was a call of compose_agent that found its agent.
ComposedAgent(l) == l.op = "compose" /\ l.phase # "not_found"

TemplateFileOf(l) == IF l.tfile = <<>> THEN {} ELSE {l.tfile}

\* C6: a call of compose_agent(a) that finds the agent leaves in
\* dependencies[a] the configuration file and nothing but the configuration
\* file and the files this call read itself (whatever an earlier composition
\* of a had recorded is gone), and leaves the set of every other agent as it
\* was; the configuration file is a member of every set.
C6_TrackingReset ==
    [][ComposedAgent(last') =>
          /\ config_path \in dependencies'[last'.agent]
          /\ dependencies'[last'.agent] \subseteq
                {config_path} \cup last'.reads \cup TemplateFileOf(last')
          /\ DOMAIN dependencies' = (DOMAIN dependencies) \cup {last'.agent}
          /\ \A b \in (DOMAIN dependencies) \ {last'.agent} :
                dependencies'[b] = dependencies[b]
          /\ \A b \in DOMAIN dependencies' : config_path \in dependencies'[b]]_vars

\* a1 has just been composed again without f2, after a2 had been composed at
\* a time when its template pulled in f2 through f1: a2's set still holds f2.
C6_Witness ==
    /\ ComposedAgent(last) /\ last.agent = "a1" /\ last.err = "none"
    /\ config.variables["V"].s = <<Lit("f2")>>
    /\ files[F("f1")].content # <<RF("f2")>>
    /\ "a2" \in DOMAIN dependencies
    /\ F("f2") \in dependencies["a2"]
    /\ F("f2") \notin dependencies["a1"]
    /\ F("f1") \in dependencies["a1"]

ReverseDependencies == GetReverseDependencies(TrackedAgents(config, dependencies), dependencies)

\* C7: get_reverse_dependencies is the inverse of the dependency sets: an
\* agent is listed under a path iff the path is in the agent's set, once, no
\* path maps to an empty list, and get_all_dependencies is the set of the
\* paths the inverse has.
C7_ReverseIsInverse ==
    LET rev == ReverseDependencies
    IN  /\ \A a \in DOMAIN dependencies : \A p \in dependencies[a] :
              p \in DOMAIN rev /\ a \in Range(rev[p])
        /\ \A p \in DOMAIN rev :
              /\ rev[p] # <<>>
              /\ \A i \in 1..Len(rev[p]) :
                    /\ rev[p][i] \in DOMAIN dependencies
                    /\ p \in dependencies[rev[p][i]]
                    /\ \A j \in 1..Len(rev[p]) : rev[p][i] = rev[p][j] => i = j
        /\ GetAllDependencies(dependencies) = DOMAIN rev

\* Both agents depend on the configuration file and on f1, only a2 on t1.
C7_Witness ==
    LET rev == ReverseDependencies
    IN  /\ F("f1") \in DOMAIN rev /\ Len(rev[F("f1")]) = 2
        /\ T("t1") \in DOMAIN rev /\ rev[T("t1")] = <<"a2">>
        /\ Len(rev[config_path]) = 2

(***************************************************************************)
(* Properties of one composition, checked under SpecOutput.                *)
(***************************************************************************)
\* C5: after compose_agent(a) has returned, dependencies[a] is the
\* configuration file, every path handed to a file read by an include step or
\* a read_file helper during the call (while resolving the variables too),
\* and the template file in template mode; nothing else.
C5_DependenciesExact ==
    (ComposedAgent(last) /\ last.err = "none") =>
        dependencies[last.agent] = {config_path} \cup last.reads \cup TemplateFileOf(last)

\* a2 has been composed: f2 was read while its variable V was resolved, f1
\* by the read_file call of its template t1.
C5_Witness ==
    /\ ComposedAgent(last) /\ last.err = "none" /\ last.agent = "a2"
    /\ config.variables["V"].s = <<RF("f2")>>
    /\ files[F("f1")] = Ok(<<Lit("x")>>)
    /\ dependencies["a2"] = {config_path, F("f1"), F("f2"), T("t1")}

HelperCalls(text) == \E i \in 1..Len(text) : text[i].k \in {"read_file", "read_file_raw"}

\* Neither the output directory nor the output file name of the agent is
\* written with a call of a file helper.
NoHelperInOutput(cfg, agent_name) ==
    /\ ~HelperCalls(cfg.settings.output_dir)
    /\ ~HelperCalls(AgentOrGlobal(cfg.agents[agent_name].output_file, cfg.settings.output_file))

\* The same composition without dry_run, from the state the dry run started in.
SameComposition(agent_name) ==
    ComposeAgent(config, files, dependencies, outfs, outdirs, subst_context, agent_name, FALSE)

\* C8 as stated: a dry run writes nothing and leaves dependencies[a] equal to
\* the set the same composition records without dry_run.
C8_DryRunSameDependencies ==
    [][(ComposedAgent(last') /\ last'.dry) =>
          /\ outfs' = outfs /\ outdirs' = outdirs
          /\ dependencies'[last'.agent] = SameComposition(last'.agent).deps[last'.agent]]_vars

\* C8 as amended: a dry run creates no directory and writes no file; it ends
\* as the same composition without dry_run ends up to the output step, with
\* the same prompt; its dependencies[a] is a subset of what that composition
\* records, and equal to it when the output location is written without a
\* file helper.
C8_DryRunNoOutput ==
    [][(ComposedAgent(last') /\ last'.dry) =>
          /\ outfs' = outfs /\ outdirs' = outdirs
          /\ \A w \in {SameComposition(last'.agent)} :
                /\ w.phase \in {"output", "written"} =>
                      last'.err = "none" /\ last'.prompt = w.prompt
                /\ w.phase \notin {"output", "written"} =>
                      last'.err = w.err /\ last'.phase = w.phase
                /\ dependencies'[last'.agent] \subseteq w.deps[last'.agent]
                /\ NoHelperInOutput(config, last'.agent) =>
                      dependencies'[last'.agent] = w.deps[last'.agent]]_vars

\* A dry run of a1 has ended with its includes recorded and nothing written.
C8_Witness ==
    /\ ComposedAgent(last) /\ last.dry /\ last.err = "none" /\ last.agent = "a1"
    /\ {F("f1"), F("f2")} \subseteq dependencies["a1"]
    /\ outfs = NoFiles /\ outdirs = {}

\* C9: a call of compose_agent that ends with an error has not written the
\* output file.
C9_ErrorMeansNoWrite ==
    (last.op = "compose" /\ last.err # "none") => last.phase # "written"

(***************************************************************************)
(* Properties of variable expansion and of assembly, checked under         *)
(* SpecText.                                                               *)
(***************************************************************************)
IsReferenceTo(value, name) ==
    Len(value.s) = 1 /\ value.s[1].k = "ref" /\ value.s[1].v = name

ReferencedNames(text) == {text[i].v : i \in {j \in 1..Len(text) : text[j].k = "ref"}}

\* The names a step of the agent's assembly refers to.
NamesUsedBy(agent_config) ==
    UNION {ReferencedNames(agent_config.assembly[i].value) :
              i \in 1..Len(agent_config.assembly)}

CircularPair(variables, a, b) ==
    /\ a # b
    /\ IsReferenceTo(variables[a], b)
    /\ IsReferenceTo(variables[b], a)

\* C1: when A is a reference to B and B a reference to A, composing an agent
\* that uses A ends with an error, never normally with some text.
C1_CircularReferenceFails ==
    \A a, b \in DOMAIN config.variables :
        (/\ ComposedAgent(last)
         /\ CircularPair(config.variables, a, b)
         /\ a \in NamesUsedBy(config.agents[last.agent]))
        => last.err # "none"

\* C3: expanding text with a reference to a name that is no key of the
\* variables raises nothing and leaves the reference in the output exactly as
\* it was written, inner whitespace included, under either warn flag.
C3_MissingReferenceVerbatim ==
    last.op = "substitute" =>
        /\ last.err = "none"
        /\ \A i \in 1..Len(last.input) :
              (last.input[i].k = "ref"
                  /\ last.input[i].v \notin (DOMAIN config.variables) \cup {"_settings"})
              => last.input[i] \in Range(last.prompt)

RECURSIVE RefersWithin(_, _, _, _)
\* From a, following the references of the values, b is met in at most n steps.
RefersWithin(variables, a, b, n) ==
    /\ n > 0
    /\ \E c \in ReferencedNames(variables[a].s) \cap DOMAIN variables :
          c = b \/ RefersWithin(variables, c, b, n - 1)

Acyclic(variables) ==
    \A a \in DOMAIN variables : ~RefersWithin(variables, a, a, Cardinality(DOMAIN variables))

\* C4: when the variables refer to each other without a cycle, a composition
\* leaves no reference to a defined variable in its output.
C4_ChainsFullyExpanded ==
    (ComposedAgent(last) /\ last.err = "none" /\ Acyclic(config.variables)) =>
        ReferencedNames(last.prompt) \cap DOMAIN config.variables = {}

\* Every fragment trimmed, those empty after trimming dropped, a blank line
\* between the rest.
RECURSIVE JoinTrimmed(_)
JoinTrimmed(parts) ==
    LET kept == SelectSeq(parts, LAMBDA q : Strip(q) # <<>>)
    IN  IF kept = <<>> THEN <<>>
        ELSE IF Len(kept) = 1 THEN Strip(kept[1])
        ELSE Strip(kept[1]) \o BlankLine \o JoinTrimmed(Tail(kept))

\* The fragments the steps of the agent contribute, in declaration order.
Fragments(agent_name) ==
    Bind(ResolveVariables(config, files, agent_name,
                          ExtraContext(config, config.agents[agent_name]),
                          StartState(dependencies, subst_context), MaxNesting),
         LAMBDA rv : AssemblySteps(files, config.agents[agent_name].assembly, rv.vars,
                                   agent_name, <<>>, rv.st, MaxNesting).parts)

\* C10: the output of an assembly is its fragments in order, each trimmed,
\* those empty after trimming dropped, joined by one blank line; it neither
\* starts nor ends with a newline of the separator.
C10_TrimmedFragmentsJoined ==
    (ComposedAgent(last) /\ last.err = "none" /\ config.agents[last.agent].has_assembly) =>
        /\ last.prompt = JoinTrimmed(Fragments(last.agent))
        /\ last.prompt # <<>> => last.prompt[1] # NL /\ last.prompt[Len(last.prompt)] # NL

(***************************************************************************)
(* Properties of the compose command, checked under SpecRun.               *)
(***************************************************************************)
RunTargets == IF run.explicit THEN run.given ELSE GetAllAgentNames(config)

TemplateFiles == {T("t1"), T("t2")}

\* C11: for every agent of the configuration a composition runs the steps
\* iff the definition has an assembly key and renders a template iff it has
\* none, and an agent with an assembly key neither records nor reads a
\* template file.
C11_StrategyByAssemblyKey ==
    (last.op = "compose" /\ last.agent \in DOMAIN config.agents) =>
        /\ last.strategy = "assembly" <=> config.agents[last.agent].has_assembly
        /\ last.strategy = "template" <=> ~config.agents[last.agent].has_assembly
        /\ config.agents[last.agent].has_assembly =>
              /\ last.tfile = <<>>
              /\ dependencies[last.agent] \cap TemplateFiles = {}
              /\ last.reads \cap TemplateFiles = {}

\* The template an agent's definition selects: its own, else the default.
SelectedTemplate(agent_name) ==
    AgentOrGlobal(config.agents[agent_name].template, config.settings.template)

\* C12: for every agent of the mapping without an assembly key, a definition
\* with no key included, the template used is the agent's own if set and
\* else the default one; the composition ends with the missing-template
\* error iff neither is set, and then it has rendered and written nothing.
C12_TemplateSelection ==
    (/\ last.op = "compose"
     /\ last.agent \in DOMAIN config.agents
     /\ ~config.agents[last.agent].has_assembly) =>
        IF SelectedTemplate(last.agent) = <<>>
        THEN /\ last.err = "PromptScribeError" /\ last.phase = "template"
             /\ last.tfile = <<>> /\ last.prompt = <<>> /\ last.out_path = <<>>
        ELSE /\ last.phase # "not_found"
             /\ last.tfile = base_dir \o <<"templates">> \o Components(SelectedTemplate(last.agent), "")

(***************************************************************************)
(* Properties of included files, checked under SpecInclude.                *)
(***************************************************************************)
MissingReads(l) == {p \in l.reads : FileAt(files, p).st = "missing"}

UnreadableReads(l) == {p \in l.reads : FileAt(files, p).st = "unreadable"}

\* The paths the file-not-found warnings of the call name.
FileNotFoundWarnings(l) ==
    {ResolvePath(<<Lit(w.name)>>) : w \in {x \in Range(l.warns) : x.kind = "file_not_found"}}

\* The files with an empty file in the place of every missing include.
WithMissingAsEmpty(fs) ==
    [p \in DOMAIN fs |-> IF fs[p].st = "missing" /\ p \notin TemplateFiles THEN Ok(<<>>) ELSE fs[p]]

\* C13: a composition that pulls in a missing file, by a step or by a
\* helper, warns of it and ends as it would had the file been there and
\* empty, without an error of its own; a file that cannot be read ends the
\* composition of the agent with a PromptScribeError and nothing written;
\* the compose command stops at no agent for a missing file.
C13_MissingIncludeIsEmpty ==
    [][ComposedAgent(last') =>
          /\ MissingReads(last') \subseteq FileNotFoundWarnings(last')
          /\ UnreadableReads(last') = {} => last'.err = "none"
          /\ UnreadableReads(last') # {} =>
                last'.err = "PromptScribeError" /\ outfs' = outfs /\ outdirs' = outdirs
          /\ \A w \in {ComposeAgent(config, WithMissingAsEmpty(files), dependencies, outfs,
                                    outdirs, subst_context, last'.agent, last'.dry)} :
                w.err = last'.err /\ w.prompt = last'.prompt /\ w.outfs = outfs'
          /\ run'.failed # <<>> => UnreadableReads(last') # {}]_vars

\* The compose command has composed a1, whose include step named the
\* missing f1, then a2, and has ended without an error.
C13_Witness ==
    /\ run.status = "exited" /\ run.code = 0 /\ run.attempted = <<"a1", "a2">>
    /\ files[F("f1")] = MissingFile
    /\ config.agents["a1"].assembly[1] = Step("include", <<Lit("f1")>>)
    /\ F("f1") \in dependencies["a1"]
    /\ outfs[base_dir \o <<"composed_prompts", "a1.md">>] = <<Lit("z")>>
    /\ last.agent = "a2" /\ F("f1") \in MissingReads(last)

(***************************************************************************)
(* Properties of the resolver, checked under SpecVars.                     *)
(***************************************************************************)
\* The variables the configuration gives the agent; none for an agent it
\* does not have.
AgentVariables(agent_name) ==
    IF agent_name \in DOMAIN config.agents THEN config.agents[agent_name].variables ELSE NoVars

\* The value a key takes before expansion: the extra context's, else the
\* agent's name for _agent_name, else the agent's variable, else the global.
SourceValue(l, key) ==
    IF key \in DOMAIN l.extra THEN l.extra[key]
    ELSE IF key = "_agent_name" THEN StrVal(<<Lit(l.agent)>>)
    ELSE IF key \in DOMAIN AgentVariables(l.agent) THEN AgentVariables(l.agent)[key]
    ELSE config.variables[key]

SourceKeys(l) ==
    (DOMAIN config.variables) \cup (DOMAIN AgentVariables(l.agent))
        \cup {"_agent_name"} \cup (DOMAIN l.extra)

SourceMapping(l) == [key \in SourceKeys(l) |-> SourceValue(l, key)]

\* One rendering of a value against a mapping.
ExpandedOnce(text, variables) ==
    SubstituteVariables(files, text, variables, NoPath,
                        StartState(dependencies, subst_context), MaxNesting).out

\* C14: the resolved mapping has the keys of the globals, of the agent's
\* variables, of the extra context, and _agent_name; each key's value comes
\* from the extra context if it is there, else it is the agent's name for
\* _agent_name, else the agent's variable, else the global one; a value that
\* is no string is passed through as it is, a string is expanded; an agent
\* the configuration does not have resolves the globals and the injected keys.
C14_MergePrecedence ==
    last.op = "resolve" =>
        /\ last.err = "none"
        /\ DOMAIN last.vars = SourceKeys(last)
        /\ \A key \in SourceKeys(last) :
              IF SourceValue(last, key).t # "str"
              THEN last.vars[key] = SourceValue(last, key)
              ELSE last.vars[key] =
                      StrVal(ExpandedOnce(SourceValue(last, key).s, SourceMapping(last)))
        /\ last.vars["_agent_name"] =
              IF "_agent_name" \in DOMAIN last.extra THEN last.extra["_agent_name"]
              ELSE StrVal(<<Lit(last.agent)>>)
        /\ last.agent \notin DOMAIN config.agents =>
              DOMAIN last.vars = (DOMAIN config.variables) \cup {"_agent_name"}
                                    \cup (DOMAIN last.extra)

\* a1 has been resolved with no extra context: its own number A and its name
\* have won over the globals A and _agent_name and over its own _agent_name.
C14_Witness ==
    /\ last.op = "resolve" /\ last.agent = "a1" /\ last.extra = NoVars
    /\ "_agent_name" \in DOMAIN config.variables
    /\ "_agent_name" \in DOMAIN config.agents["a1"].variables
    /\ last.vars["_agent_name"] = StrVal(<<Lit("a1")>>)
    /\ last.vars["A"] = IntVal("9")
    /\ config.variables["A"] = StrVal(<<Ref("B", 1)>>)

\* The orders in which the configuration may list its variables.
Orders(names) ==
    {o \in [1..Cardinality(names) -> names] : \A i, j \in DOMAIN o : o[i] = o[j] => i = j}

\* C15: whatever the order in which the configuration lists the variables,
\* the resolver returns the same mapping, each string value being the
\* expansion of its own text against the mapping as it was before any
\* expansion.
C15_OrderIndependent ==
    last.op = "resolve" =>
        \A o \in Orders(Range(config.order)) :
            ResolveVariables([config EXCEPT !.order = o], files, last.agent, last.extra,
                             StartState(dependencies, subst_context), MaxNesting).vars
                = last.vars

\* B, which refers to N, was listed and resolved before A, which refers to
\* B: A is B's text as written, not B's resolved value.
C15_Witness ==
    /\ last.op = "resolve" /\ last.agent = "ghost" /\ last.extra = NoVars
    /\ config.order = <<"_agent_name", "N", "B", "A">>
    /\ config.variables["A"] = StrVal(<<Ref("B", 1)>>)
    /\ config.variables["B"] = StrVal(<<Ref("N", 1)>>)
    /\ last.vars["B"] = StrVal(<<Lit("7")>>)
    /\ last.vars["A"] = StrVal(<<Ref("N", 1)>>)

(***************************************************************************)
(* Properties of the output location, checked under SpecLocation.          *)
(***************************************************************************)
\* The variables of the agent as the resolver returns them.
ResolvedVariables(agent_name) ==
    ResolveVariables(config, files, agent_name, ExtraContext(config, config.agents[agent_name]),
                     StartState(dependencies, subst_context), MaxNesting).vars

\* The output directory of the agent: the setting, or composed_prompts,
\* expanded and resolved against the configuration file's directory.
OutputDirOf(agent_name) ==
    ResolvePath(ExpandedOnce(IF config.settings.output_dir = <<>>
                             THEN <<Lit("composed_prompts")>>
                             ELSE config.settings.output_dir,
                             ResolvedVariables(agent_name)))

\* The file name template of the agent: its own, else the global one.
OutputFileTemplate(agent_name) ==
    IF config.agents[agent_name].output_file # <<>>
    THEN config.agents[agent_name].output_file
    ELSE config.settings.output_file

OutputFileName(agent_name) ==
    ExpandedOnce(OutputFileTemplate(agent_name), ResolvedVariables(agent_name))

ExpectedLocation(agent_name) ==
    IF OutputFileTemplate(agent_name) = <<>>
    THEN OutputDirOf(agent_name) \o <<agent_name \o ".md">>
    ELSE IF SLASH \in Range(OutputFileName(agent_name))
    THEN (IF Head(OutputFileName(agent_name)) = SLASH
          THEN Components(OutputFileName(agent_name), "")
          ELSE Normalize(Components(OutputFileName(agent_name), ""), base_dir))
    ELSE OutputDirOf(agent_name) \o <<ToStr(OutputFileName(agent_name))>>

\* C16: a composition that writes its output writes the prompt to the file
\* named by the agent's output_file, else the global one, expanded with the
\* agent's variables: taken as a path of its own, resolved against the
\* configuration file's directory, when the name has a separator, and put
\* under the output directory when it has none; to <agent>.md under the
\* output directory when no name is set; whatever the file held is replaced,
\* and no other file changes.
C16_OutputLocation ==
    [][(ComposedAgent(last') /\ ~last'.dry /\ last'.err = "none") =>
          /\ last'.out_path = ExpectedLocation(last'.agent)
          /\ outfs' = [p \in (DOMAIN outfs) \cup {ExpectedLocation(last'.agent)} |->
                          IF p = ExpectedLocation(last'.agent) THEN last'.prompt ELSE outfs[p]]
          /\ outdirs' = outdirs \cup {Parent(ExpectedLocation(last'.agent))}]_vars

\* a1's own name sub/a1.md went to the configuration file's directory, not
\* to its output directory out/av; a2, which has no name of its own, had
\* written to the global name g.md under its output directory out/gv.
C16_Witness ==
    /\ last.op = "compose" /\ last.agent = "a1" /\ ~last.dry /\ last.err = "none"
    /\ config.settings.output_dir = <<Lit("out"), SLASH, Ref("V", 1)>>
    /\ config.agents["a1"].output_file = <<Lit("sub"), SLASH, Ref("_agent_name", 1), Lit(".md")>>
    /\ config.settings.output_file = <<Lit("g.md")>>
    /\ last.out_path = base_dir \o <<"sub", "a1.md">>
    /\ outfs[base_dir \o <<"sub", "a1.md">>] = <<Lit("one")>>
    /\ base_dir \o <<"out", "gv", "g.md">> \in DOMAIN outfs
    /\ outfs[base_dir \o <<"out", "gv", "g.md">>] = <<Lit("two")>>

(***************************************************************************)
(* Further properties of expansion, checked under SpecText.                *)
(***************************************************************************)
ReferenceFree(text) == \A i \in 1..Len(text) : text[i].k = "lit"

\* C17: expanding a text without a reference, one that ends in a newline
\* included, returns the text as it is, and expanding the result returns it
\* again.
C17_ReferenceFreeIdentity ==
    (last.op = "substitute" /\ ReferenceFree(last.input)) =>
        /\ last.prompt = last.input
        /\ ExpandedOnce(last.prompt, config.variables) = last.input

(***************************************************************************)
(* Properties of the step keys, checked under SpecSteps.                   *)
(***************************************************************************)
\* The heading levels of Markdown and their marks.
HeadingMarks ==
    [key \in {"h1", "h2", "h3", "h4", "h5", "h6"} |->
        CASE key = "h1" -> <<Lit("#")>>
          [] key = "h2" -> <<Lit("#"), Lit("#")>>
          [] key = "h3" -> <<Lit("#"), Lit("#"), Lit("#")>>
          [] key = "h4" -> <<Lit("#"), Lit("#"), Lit("#"), Lit("#")>>
          [] key = "h5" -> <<Lit("#"), Lit("#"), Lit("#"), Lit("#"), Lit("#")>>
          [] key = "h6" -> <<Lit("#"), Lit("#"), Lit("#"), Lit("#"), Lit("#"), Lit("#")>>]

\* The fragments of steps without includes when only content, separator and
\* h1..h6 contribute.
RECURSIVE KnownKeyFragments(_, _)
KnownKeyFragments(steps, variables) ==
    IF steps = <<>> THEN <<>>
    ELSE (IF Head(steps).key \in {"content", "separator"}
          THEN <<ExpandedOnce(Head(steps).value, variables)>>
          ELSE IF Head(steps).key \in DOMAIN HeadingMarks
          THEN <<HeadingMarks[Head(steps).key] \o <<SP>>
                    \o ExpandedOnce(Head(steps).value, variables)>>
          ELSE <<>>)
         \o KnownKeyFragments(Tail(steps), variables)

\* C18: only content, separator and h1..h6 steps (and the includes) add a
\* fragment; hN adds N '#', a space and the expanded text; a step of any
\* other key, h0, h7 and h10 among them, adds nothing to the prompt.
C18_OnlyKnownKeysContribute ==
    (ComposedAgent(last) /\ last.err = "none") =>
        last.prompt = JoinParts(KnownKeyFragments(config.agents[last.agent].assembly,
                                                  ResolvedVariables(last.agent)))

(***************************************************************************)
(* Properties of substitution in included files, checked under             *)
(* SpecInclude.                                                            *)
(***************************************************************************)
\* The text of f1 as written, and as it is once expanded: X replaced, the
\* reference to the missing M kept.
WrittenText == <<Lit("a"), Ref("X", 1), Ref("M", 1)>>
ExpandedText == <<Lit("a"), Lit("vx"), Ref("M", 1)>>

\* The agent fetches f1 in the raw form: by an include_raw step or by the
\* read_file_raw helper, in a step or in its template.
FetchesRaw(agent_name) ==
    IF config.agents[agent_name].has_assembly
    THEN \/ config.agents[agent_name].assembly[1].key = "include_raw"
         \/ RFR("f1") \in Range(config.agents[agent_name].assembly[1].value)
    ELSE config.agents[agent_name].template = <<Lit("t2")>>

\* The agent's own substitute_in_included_files when it sets one, else the
\* global one, else true.
SubstituteFlagOf(agent_name) ==
    IF config.agents[agent_name].sub # "unset" THEN config.agents[agent_name].sub = "true"
    ELSE IF config.settings.sub # "unset" THEN config.settings.sub = "true"
    ELSE TRUE

\* C19: what an include_raw step or the read_file_raw helper fetches goes
\* into the prompt as written; what an include step or the read_file helper
\* fetches goes in expanded iff the agent's substitute flag is true, or is
\* not set while the global one is true or not set either.
C19_SubstitutionInIncludes ==
    (ComposedAgent(last) /\ last.err = "none" /\ files[F("f1")].st = "ok") =>
        SubSeq(last.prompt, 1, 3) =
            IF ~FetchesRaw(last.agent) /\ SubstituteFlagOf(last.agent)
            THEN ExpandedText ELSE WrittenText

\* a1 includes f1 with its own flag true where the global one is false: the
\* fetched text went in expanded.
C19_Witness ==
    /\ ComposedAgent(last) /\ last.err = "none" /\ last.agent = "a1"
    /\ config.agents["a1"].assembly[1] = Step("include", <<Lit("f1")>>)
    /\ config.agents["a1"].sub = "true" /\ config.settings.sub = "false"
    /\ files[F("f1")].st = "ok"
    /\ last.prompt = ExpandedText \o BlankLine \o <<Lit("z")>>

\* The warnings about the missing variable M the call gave.
UndefinedWarnings(l) == SelectSeq(l.warns, LAMBDA w : w.kind = "undefined" /\ w.name = "M")

\* C20: when a step's text pulls in f1 through read_file and then refers to
\* the missing M itself, the warning for the step's own reference, the last
\* one given, names no file: it is not put down to f1.
C20_WarningContextFresh ==
    (/\ ComposedAgent(last) /\ last.err = "none" /\ last.agent = "a1"
     /\ config.agents["a1"].assembly[1] = Step("content", <<RF("f1"), Ref("M", 1)>>)
     /\ config.agents["a1"].warn = "unset") =>
        /\ UndefinedWarnings(last) # <<>>
        /\ UndefinedWarnings(last)[Len(UndefinedWarnings(last))].file = NoPath

(***************************************************************************)
(* Properties of watch mode, checked under SpecWatch.                      *)
(***************************************************************************)
\* The watcher that handles the events to come: the one a pending restart
\* starts, else the one that runs.
WatcherToCome ==
    IF watcher.restart_queue # <<>>
    THEN RunWatcher(Head(watcher.restart_queue), watcher.agent_names)
    ELSE watcher

\* C21: once the handler has processed a change event for prompts.yml,
\* whether or not recomposing an agent failed, later events are handled
\* against the reloaded configuration: the composer and the reverse
\* dependencies in use are those of the fresh composer, the watched
\* directories are the parents of the fresh composer's dependencies, and
\* the watcher is restarted exactly when that set of directories changed.
C21_ConfigChangeAdopted ==
    watcher.event.handled = "config" =>
        /\ WatcherToCome.composer = watcher.event.fresh
        /\ WatcherToCome.reverse_dependencies =
               GetReverseDependencies(watcher.event.fresh.tracked,
                                      watcher.event.fresh.dependencies)
        /\ WatcherToCome.watch_paths = WatchDirs(watcher.event.fresh.dependencies)
        /\ (watcher.restart_queue # <<>>)
               <=> (watcher.watch_paths # WatchDirs(watcher.event.fresh.dependencies))

\* C22: when watch mode was started for a non-empty list of agent names,
\* every agent recomposed in reaction to an event, a change of a dependency
\* or of the configuration, is one of the agents named.
C22_OnlyRequestedRecomposed ==
    watcher.agent_names # <<>> =>
        Members(watcher.event.composed) \subseteq Members(watcher.agent_names)

\* The paths the handler's reverse dependencies list an agent for.
PathsListing(agent_name) ==
    {p \in DOMAIN watcher.reverse_dependencies :
        agent_name \in Members(watcher.reverse_dependencies[p])}

\* C23: after the handler has recomposed agents in reaction to a change of
\* a dependency, its reverse dependencies are the inverse of the sets the
\* most recent compositions recorded: each recomposed agent is listed for
\* exactly the paths its recomposition recorded, so a file the changed file
\* has come to include leads to the agent when it changes later.
C23_ReverseDependenciesCurrent ==
    (watcher.event.handled = "dependency" /\ watcher.event.err = "none") =>
        \A a \in Members(watcher.event.composed) :
            PathsListing(a) = watcher.event.fresh.dependencies[a]

\* C24: only an event that passes the handler's filters opens a debounce
\* window: a modified, created or deleted event for a file some agent
\* depends on, coming right after an event the handler ignored (a directory
\* event or one of another kind), leads to the recomposition of the agents
\* listed for the file, however little time has passed.
C24_IgnoredEventOpensNoWindow ==
    [][(/\ watcher.event.handled = "ignored"
        /\ watcher'.status = "watching"
        /\ watcher'.event # watcher.event
        /\ ~watcher'.event.is_directory
        /\ watcher'.event.event_type \in EventTypes
        /\ watcher'.event.src_path \in (DOMAIN watcher.reverse_dependencies) \ {config_path})
       => watcher'.event.handled = "dependency"]_vars

====
